---------------------------- MODULE Spec2Model ----------------------------
(***************************************************************************)
(* EC2 billable-resource discovery: the orchestrator                       *)
(* EC2ResourceDiscovery.discover_all_resources with its six collectors     *)
(* (ec2_resource_discovery.py) and the command-line entry point main       *)
(* (aws_ec2_resource_discovery.py).                                        *)
(*                                                                         *)
(* The provider (boto3 / EC2) is the environment.  Every provider call     *)
(* either answers, raises botocore's ClientError (the only exception the   *)
(* collectors catch), or raises some other exception (a connection error,  *)
(* a malformed answer), which no collector catches.                        *)
(***************************************************************************)
EXTENDS Naturals, Integers, Sequences, FiniteSets, TLC

VARIABLES
    credentials,        \* the AWS credentials of the environment: "valid", "missing" or "invalid"
    fmt_call,           \* the formatter or collector call under study (None in a run of
                        \* main or discovery)
    fmt_value,          \* what that call returned (None before it returns)
    entry,              \* who runs: "api" (a caller of discover_all_resources), "cli" (main),
                        \* "formatter" or "collector" (a caller of that one function)
    limit,              \* most items the provider puts in one answer in this run
    pc,                 \* position in main / discover_all_resources
    args,               \* parsed command line: summary_only, detailed, export_csv, export_json
    instance_id,        \* the instance identifier, a sequence of characters
    session,            \* TRUE once boto3.Session and the clients exist
    exit_code,          \* NoExit while running, else the process's exit status
    queries,            \* every provider call issued so far, in order, with its outcome
    stdout,             \* what was printed so far, in order
    files,              \* the export files written so far, in order
    instance_details,   \* discover_all_resources: instance_details
    volumes,            \* discover_all_resources: volumes
    network_interfaces, \* discover_all_resources: network_interfaces
    snapshots,          \* discover_all_resources: snapshots
    amis,               \* discover_all_resources: amis
    security_groups,    \* discover_all_resources: security_groups
    elastic_ips,        \* discover_all_resources: elastic_ips
    result              \* what discover_all_resources returned (None before and on failure)

vars == <<credentials, fmt_call, fmt_value, entry, limit, pc, args, instance_id,
          session, exit_code, queries, stdout,
          files, instance_details, volumes, network_interfaces, snapshots, amis,
          security_groups, elastic_ips, result>>

\* what no step of main or of discover_all_resources assigns
given == <<credentials, fmt_call, fmt_value, entry, limit>>

locals == <<instance_details, volumes, network_interfaces, snapshots, amis,
            security_groups, elastic_ips>>

-----------------------------------------------------------------------------
(* Bounds of the model *)

\* most items in one provider answer when discover_all_resources is called directly
MaxItems == 2
\* most items in one provider answer in a run of the command line
CliMaxItems == 0

-----------------------------------------------------------------------------
(* Values *)

None == [none |-> TRUE]
\* exit_code while the process runs
NoExit == 0 - 1
NoId == <<>>
NA == <<"N/A">>

Min(a, b) == IF a < b THEN a ELSE b

Map(Op(_), s) == [i \in 1..Len(s) |-> Op(s[i])]

Reverse(s) == [i \in 1..Len(s) |-> s[Len(s) + 1 - i]]

\* i-1234567890abcdef0, the documented example identifier
ExampleId == <<"i", "-", "1", "2", "3", "4", "5", "6", "7", "8", "9", "0",
               "a", "b", "c", "d", "e", "f", "0">>

NoArgs == [summary_only |-> FALSE, detailed |-> FALSE,
           export_csv |-> FALSE, export_json |-> FALSE]

-----------------------------------------------------------------------------
(* The provider's answers *)

\* instance.load(): the attributes get_instance_details reads
InstanceDescription(iid, image) ==
    [id |-> iid, instance_type |-> "t3.micro", state |-> "running",
     image_id |-> image, tags |-> <<>>]

ImageIds == {NoId, <<"ami", 1>>}

\* describe_volumes: one volume, attached to the instance
Volume(k, iid) ==
    [VolumeId |-> <<"vol", k>>,
     Attachments |-> <<[InstanceId |-> iid, Device |-> <<"/dev/sd", k>>,
                        DeleteOnTermination |-> TRUE]>>]

\* describe_volumes answers: up to n volumes, in ascending or descending order
VolumeResponses(n, iid) ==
    LET asc(m) == [k \in 1..m |-> Volume(k, iid)]
    IN  {asc(m) : m \in 0..n} \cup {Reverse(asc(m)) : m \in 2..n}

NetworkInterface(k) == [NetworkInterfaceId |-> <<"eni", k>>, Status |-> "in-use"]

NetworkInterfaceResponses(n) ==
    {[k \in 1..m |-> NetworkInterface(k)] : m \in 0..n}

\* describe_snapshots filtered by volume-id: every snapshot is of a queried volume
Snapshot(k, volume_ids) ==
    [SnapshotId |-> <<"snap", k>>,
     VolumeId |-> volume_ids[((k - 1) % Len(volume_ids)) + 1]]

SnapshotResponses(n, volume_ids) ==
    {[k \in 1..m |-> Snapshot(k, volume_ids)] : m \in 0..n}

\* describe_images for one image id: the image, or nothing (deregistered)
Image(image) == [ImageId |-> image, State |-> "available"]

ImageResponses(n, image) == {[k \in 1..m |-> Image(image)] : m \in 0..Min(1, n)}

\* instance.security_groups after a load
SecurityGroupRefs(n) == {[k \in 1..m |-> [GroupId |-> <<"sg", k>>]] : m \in 0..n}

\* describe_security_groups by GroupIds: the groups asked for
SecurityGroup(gid) == [GroupId |-> gid, GroupName |-> "default"]

\* describe_addresses: VPC addresses carry an AllocationId, EC2-Classic ones none
Address(k, vpc) ==
    IF vpc THEN [PublicIp |-> <<"ip", k>>, AllocationId |-> <<"eipalloc", k>>]
    ELSE [PublicIp |-> <<"ip", k>>]

AddressResponses(n) ==
    {[k \in 1..m |-> Address(k, vpc)] : m \in 0..n, vpc \in BOOLEAN}

-----------------------------------------------------------------------------
(* Normalized records *)

instance_resource(iid, details) ==
    [resource_type |-> "EC2 Instance", resource_id |-> iid,
     instance_type |-> details.instance_type, state |-> details.state,
     tags |-> details.tags]

\* mutant: the loop over the attachments has no break, the last matching entry wins
RECURSIVE first_attachment_without_break(_, _, _)
first_attachment_without_break(attachments, iid, info) ==
    IF attachments = <<>> THEN info
    ELSE first_attachment_without_break(Tail(attachments), iid,
             IF Head(attachments).InstanceId = iid
             THEN [info EXCEPT !.device = Head(attachments).Device,
                               !.delete_on_termination =
                                   Head(attachments).DeleteOnTermination]
             ELSE info)

RECURSIVE first_attachment(_, _, _)
first_attachment(attachments, iid, info) ==
    IF attachments = <<>> THEN info
    ELSE IF Head(attachments).InstanceId = iid
         THEN [info EXCEPT !.device = Head(attachments).Device,
                           !.delete_on_termination = Head(attachments).DeleteOnTermination]
         ELSE first_attachment(Tail(attachments), iid, info)

volume_info(volume, iid) ==
    first_attachment(volume.Attachments, iid,
        [resource_type |-> "EBS Volume", resource_id |-> volume.VolumeId,
         device |-> NoId, delete_on_termination |-> FALSE])

eni_info(eni) ==
    [resource_type |-> "Network Interface", resource_id |-> eni.NetworkInterfaceId,
     status |-> eni.Status]

snapshot_info(snapshot) ==
    [resource_type |-> "EBS Snapshot", resource_id |-> snapshot.SnapshotId,
     volume_id |-> snapshot.VolumeId]

ami_info(ami) ==
    [resource_type |-> "AMI", resource_id |-> ami.ImageId, state |-> ami.State]

sg_info(sg) ==
    [resource_type |-> "Security Group", resource_id |-> sg.GroupId,
     name |-> sg.GroupName]

eip_info(eip) ==
    [resource_type |-> "Elastic IP",
     resource_id |-> IF "AllocationId" \in DOMAIN eip THEN eip.AllocationId ELSE NA,
     public_ip |-> eip.PublicIp]

-----------------------------------------------------------------------------
(* Provider calls and their outcomes *)

\* "NotFound": ClientError with code InvalidInstanceID.NotFound; "ClientError": a
\* ClientError with any other code; "Error": an exception that is no ClientError
Outcomes == {"ok", "ClientError", "Error"}
LoadOutcomes == {"ok", "NotFound", "ClientError", "Error"}

IsClientError(outcome) == outcome \in {"NotFound", "ClientError"}

Call(op, by, outcome, items) == [op |-> op, by |-> by, outcome |-> outcome, items |-> items]

\* what a collector did: the list it returns, the provider calls it issued, what it
\* printed, and whether an exception left it
Collected(value, calls, printed, raised) ==
    [value |-> value, calls |-> calls, printed |-> printed, raised |-> raised]

-----------------------------------------------------------------------------
(* The collectors *)

get_associated_volumes(iid, by, outcome, response) ==
    LET call == <<Call("describe_volumes", by, outcome, response)>>
    IN  IF outcome = "ok"
        THEN Collected(Map(LAMBDA v : volume_info(v, iid), response), call, <<>>, FALSE)
        ELSE IF IsClientError(outcome)
        THEN Collected(<<>>, call, <<"Error retrieving volumes">>, FALSE)
        ELSE Collected(<<>>, call, <<>>, TRUE)

\* mutant: the collector has no except clause, a ClientError leaves it
get_associated_network_interfaces_uncaught(iid, outcome, response) ==
    LET call == <<Call("describe_network_interfaces",
                       "get_associated_network_interfaces", outcome, response)>>
    IN  IF outcome = "ok"
        THEN Collected(Map(eni_info, response), call, <<>>, FALSE)
        ELSE Collected(<<>>, call, <<>>, TRUE)

get_associated_network_interfaces(iid, outcome, response) ==
    LET call == <<Call("describe_network_interfaces",
                       "get_associated_network_interfaces", outcome, response)>>
    IN  IF outcome = "ok"
        THEN Collected(Map(eni_info, response), call, <<>>, FALSE)
        ELSE IF IsClientError(outcome)
        THEN Collected(<<>>, call, <<"Error retrieving network interfaces">>, FALSE)
        ELSE Collected(<<>>, call, <<>>, TRUE)

\* mutant: the snapshot query is issued also with no volume id
query_snapshots_unguarded(found, volume_ids, outcome, response) ==
    LET call == <<Call("describe_snapshots", "get_associated_snapshots",
                       outcome, response)>>
    IN  IF outcome = "ok"
        THEN Collected(Map(snapshot_info, response), found.calls \o call,
                       found.printed, FALSE)
        ELSE IF IsClientError(outcome)
        THEN Collected(<<>>, found.calls \o call,
                       found.printed \o <<"Error retrieving snapshots">>, FALSE)
        ELSE Collected(<<>>, found.calls \o call, found.printed, TRUE)

\* the part of get_associated_snapshots after the volume ids are known
query_snapshots(found, volume_ids, outcome, response) ==
    LET call == <<Call("describe_snapshots", "get_associated_snapshots",
                       outcome, response)>>
    IN  IF volume_ids = <<>>
        THEN Collected(<<>>, found.calls, found.printed, FALSE)
        ELSE IF outcome = "ok"
        THEN Collected(Map(snapshot_info, response), found.calls \o call,
                       found.printed, FALSE)
        ELSE IF IsClientError(outcome)
        THEN Collected(<<>>, found.calls \o call,
                       found.printed \o <<"Error retrieving snapshots">>, FALSE)
        ELSE Collected(<<>>, found.calls \o call, found.printed, TRUE)

\* the part of get_associated_ami after instance.load() answered
query_images(loaded, image, outcome, response) ==
    LET call == <<Call("describe_images", "get_associated_ami", outcome, response)>>
    IN  IF image = NoId
        THEN Collected(<<>>, loaded, <<>>, FALSE)
        ELSE IF outcome = "ok"
        THEN Collected(Map(ami_info, response), loaded \o call, <<>>, FALSE)
        ELSE IF IsClientError(outcome)
        THEN Collected(<<>>, loaded \o call, <<"Error retrieving AMI">>, FALSE)
        ELSE Collected(<<>>, loaded \o call, <<>>, TRUE)

\* mutant: describe_security_groups is issued also for an empty list of group ids
query_security_groups_unguarded(loaded, sg_ids, outcome, response) ==
    LET call == <<Call("describe_security_groups", "get_associated_security_groups",
                       outcome, response)>>
    IN  IF outcome = "ok"
        THEN Collected(Map(sg_info, response), loaded \o call, <<>>, FALSE)
        ELSE IF IsClientError(outcome)
        THEN Collected(<<>>, loaded \o call, <<"Error retrieving security groups">>, FALSE)
        ELSE Collected(<<>>, loaded \o call, <<>>, TRUE)

\* the part of get_associated_security_groups after instance.load() answered
query_security_groups(loaded, sg_ids, outcome, response) ==
    LET call == <<Call("describe_security_groups", "get_associated_security_groups",
                       outcome, response)>>
    IN  IF sg_ids = <<>>
        THEN Collected(<<>>, loaded, <<>>, FALSE)
        ELSE IF outcome = "ok"
        THEN Collected(Map(sg_info, response), loaded \o call, <<>>, FALSE)
        ELSE IF IsClientError(outcome)
        THEN Collected(<<>>, loaded \o call, <<"Error retrieving security groups">>, FALSE)
        ELSE Collected(<<>>, loaded \o call, <<>>, TRUE)

get_associated_elastic_ips(iid, outcome, response) ==
    LET call == <<Call("describe_addresses", "get_associated_elastic_ips",
                       outcome, response)>>
    IN  IF outcome = "ok"
        THEN Collected(Map(eip_info, response), call, <<>>, FALSE)
        ELSE IF IsClientError(outcome)
        THEN Collected(<<>>, call, <<"Error retrieving Elastic IPs">>, FALSE)
        ELSE Collected(<<>>, call, <<>>, TRUE)

-----------------------------------------------------------------------------
(* discover_all_resources *)

\* the dictionary discover_all_resources returns
result_record(details, all_resources, total, n_vols, n_enis, n_snaps, n_images, n_sgs, n_eips) ==
    [instance_details |-> details,
     resources |-> all_resources,
     summary |-> [total_resources |-> total,
                  volumes |-> n_vols,
                  network_interfaces |-> n_enis,
                  snapshots |-> n_snaps,
                  amis |-> n_images,
                  security_groups |-> n_sgs,
                  elastic_ips |-> n_eips]]

\* mutant: the total leaves the instance's own entry out
discovery_result_total_without_instance(iid, details, vols, enis, snaps, images, sgs, eips) ==
    LET all_resources == <<instance_resource(iid, details)>>
                         \o vols \o enis \o snaps \o images \o sgs \o eips
    IN  result_record(details, all_resources, Len(all_resources) - 1, Len(vols),
                      Len(enis), Len(snaps), Len(images), Len(sgs), Len(eips))

\* mutant: the volume and snapshot counts are taken from each other's list
discovery_result_counts_swapped(iid, details, vols, enis, snaps, images, sgs, eips) ==
    LET all_resources == <<instance_resource(iid, details)>>
                         \o vols \o enis \o snaps \o images \o sgs \o eips
    IN  result_record(details, all_resources, Len(all_resources), Len(snaps),
                      Len(enis), Len(vols), Len(images), Len(sgs), Len(eips))

\* mutant: the network interfaces are appended before the volumes
discovery_result_interfaces_first(iid, details, vols, enis, snaps, images, sgs, eips) ==
    LET all_resources == <<instance_resource(iid, details)>>
                         \o enis \o vols \o snaps \o images \o sgs \o eips
    IN  result_record(details, all_resources, Len(all_resources), Len(vols),
                      Len(enis), Len(snaps), Len(images), Len(sgs), Len(eips))

\* the value discover_all_resources returns once every collector has returned
discovery_result(iid, details, vols, enis, snaps, images, sgs, eips) ==
    LET all_resources == <<instance_resource(iid, details)>>
                         \o vols \o enis \o snaps \o images \o sgs \o eips
    IN  result_record(details, all_resources, Len(all_resources), Len(vols),
                      Len(enis), Len(snaps), Len(images), Len(sgs), Len(eips))

\* discover_all_resources returns res to its caller
Return(res) ==
    /\ result' = res
    /\ pc' = "returned"

\* except Exception: print Unexpected error, return None
Abort(calls) ==
    /\ queries' = queries \o calls
    /\ stdout' = stdout \o <<"Unexpected error">>
    /\ Return(None)
    /\ UNCHANGED locals

frame == <<given, args, instance_id, session, exit_code, files>>

\* mutant: instance-not-found is swallowed and discovery goes on
get_instance_details_swallows_not_found(outcome) == outcome \notin {"ok", "NotFound"}

\* mutant: only instance-not-found is raised, other failures of the load are swallowed
get_instance_details_raises_only_not_found(outcome) == outcome = "NotFound"

\* get_instance_details raises on every failure of the load: ValueError when the
\* code is InvalidInstanceID.NotFound, the exception itself otherwise
get_instance_details_raises(outcome) == outcome # "ok"

\* how instance.load() can end: the provider refuses every request signed with
\* invalid credentials (a ClientError whose code is an authentication failure)
load_outcomes(creds) ==
    IF creds = "invalid" THEN {"ClientError", "Error"} ELSE LoadOutcomes

\* get_instance_details, then the instance's own record
discover_instance ==
    /\ pc = "discover"
    /\ \E outcome \in LoadOutcomes, image \in ImageIds :
         LET description == InstanceDescription(instance_id, image)
             call == <<Call("load", "get_instance_details", outcome,
                            IF outcome = "ok" THEN <<description>> ELSE <<>>)>>
         IN  /\ outcome \in load_outcomes(credentials)
             /\ outcome # "ok" => image = NoId
             /\ queries' = queries \o call
             /\ IF ~get_instance_details_raises(outcome)
                THEN /\ instance_details' =
                            [instance_id |-> description.id,
                             instance_type |-> description.instance_type,
                             state |-> description.state,
                             image_id |-> description.image_id,
                             tags |-> description.tags]
                     /\ stdout' = stdout \o <<"Discovering resources">>
                     /\ pc' = "volumes"
                     /\ UNCHANGED result
                ELSE /\ stdout' = stdout \o <<"Discovering resources",
                            IF outcome = "NotFound" THEN "Error: Instance not found"
                            ELSE "Unexpected error">>
                     /\ Return(None)
                     /\ UNCHANGED instance_details
    /\ UNCHANGED <<frame, volumes, network_interfaces, snapshots, amis,
                   security_groups, elastic_ips>>

discover_volumes ==
    /\ pc = "volumes"
    /\ \E outcome \in Outcomes, response \in VolumeResponses(limit, instance_id) :
         LET c == get_associated_volumes(instance_id, "get_associated_volumes",
                                         outcome, response)
         IN  /\ outcome # "ok" => response = <<>>
             /\ IF c.raised THEN Abort(c.calls)
                ELSE /\ volumes' = c.value
                     /\ queries' = queries \o c.calls
                     /\ stdout' = stdout \o c.printed
                     /\ pc' = "network_interfaces"
                     /\ UNCHANGED <<instance_details, network_interfaces, snapshots,
                                    amis, security_groups, elastic_ips, result>>
    /\ UNCHANGED frame

discover_network_interfaces ==
    /\ pc = "network_interfaces"
    /\ \E outcome \in Outcomes, response \in NetworkInterfaceResponses(limit) :
         LET c == get_associated_network_interfaces(instance_id, outcome, response)
         IN  /\ outcome # "ok" => response = <<>>
             /\ IF c.raised THEN Abort(c.calls)
                ELSE /\ network_interfaces' = c.value
                     /\ queries' = queries \o c.calls
                     /\ stdout' = stdout \o c.printed
                     /\ pc' = "snapshots"
                     /\ UNCHANGED <<instance_details, volumes, snapshots,
                                    amis, security_groups, elastic_ips, result>>
    /\ UNCHANGED frame

\* get_associated_snapshots asks for the instance's volumes again, then for their snapshots
discover_snapshots ==
    /\ pc = "snapshots"
    /\ \E v_outcome \in Outcomes, v_response \in VolumeResponses(limit, instance_id) :
         LET found == get_associated_volumes(instance_id, "get_associated_snapshots",
                                             v_outcome, v_response)
             volume_ids == Map(LAMBDA vol : vol.resource_id, found.value)
         IN  /\ v_outcome # "ok" => v_response = <<>>
             /\ IF found.raised THEN Abort(found.calls)
                ELSE \E outcome \in Outcomes,
                        response \in IF volume_ids = <<>> THEN {<<>>}
                                     ELSE SnapshotResponses(limit, volume_ids) :
                       LET c == query_snapshots(found, volume_ids, outcome, response)
                       IN  /\ outcome # "ok" => response = <<>>
                           /\ volume_ids = <<>> => outcome = "ok"
                           /\ IF c.raised THEN Abort(c.calls)
                              ELSE /\ snapshots' = c.value
                                   /\ queries' = queries \o c.calls
                                   /\ stdout' = stdout \o c.printed
                                   /\ pc' = "amis"
                                   /\ UNCHANGED <<instance_details, volumes,
                                                  network_interfaces, amis,
                                                  security_groups, elastic_ips, result>>
    /\ UNCHANGED frame

\* mutant: the collector's except clause does not cover instance.load()
Reload_uncaught(by, outcome, answer, message) ==
    LET call == <<Call("load", by, outcome, answer)>>
    IN  IF outcome = "ok" THEN Collected(<<>>, call, <<>>, FALSE)
        ELSE Collected(<<>>, call, <<>>, TRUE)

\* mutant: a load that raised ClientError is issued a second time
Reload_retried(by, outcome, answer, message) ==
    LET call == <<Call("load", by, outcome, answer)>>
    IN  IF outcome = "ok" THEN Collected(<<>>, call, <<>>, FALSE)
        ELSE IF IsClientError(outcome)
        THEN Collected(<<>>, call \o call, <<message>>, FALSE)
        ELSE Collected(<<>>, call, <<>>, TRUE)

\* an instance.load() issued by a collector: the call, and what the collector does on failure
Reload(by, outcome, answer, message) ==
    LET call == <<Call("load", by, outcome, answer)>>
    IN  IF outcome = "ok" THEN Collected(<<>>, call, <<>>, FALSE)
        ELSE IF IsClientError(outcome) THEN Collected(<<>>, call, <<message>>, FALSE)
        ELSE Collected(<<>>, call, <<>>, TRUE)

\* get_associated_ami loads the instance again, then asks for its image; an instance's
\* image_id never changes, so the reload answers the one the first fetch answered
discover_amis ==
    /\ pc = "amis"
    /\ \E l_outcome \in LoadOutcomes :
         LET image == instance_details.image_id
             loaded == Reload("get_associated_ami", l_outcome,
                              IF l_outcome = "ok" THEN <<image>> ELSE <<>>,
                              "Error retrieving AMI")
         IN  IF loaded.raised THEN Abort(loaded.calls)
             ELSE \E outcome \in Outcomes,
                     response \in IF l_outcome = "ok" /\ image # NoId
                                  THEN ImageResponses(limit, image) ELSE {<<>>} :
                    LET c == IF l_outcome = "ok"
                             THEN query_images(loaded.calls, image, outcome, response)
                             ELSE loaded
                    IN  /\ outcome # "ok" => response = <<>>
                        /\ (l_outcome # "ok" \/ image = NoId) => outcome = "ok"
                        /\ IF c.raised THEN Abort(c.calls)
                           ELSE /\ amis' = c.value
                                /\ queries' = queries \o c.calls
                                /\ stdout' = stdout \o c.printed
                                /\ pc' = "security_groups"
                                /\ UNCHANGED <<instance_details, volumes,
                                               network_interfaces, snapshots,
                                               security_groups, elastic_ips, result>>
    /\ UNCHANGED frame

\* get_associated_security_groups loads the instance again, then asks for its groups
discover_security_groups ==
    /\ pc = "security_groups"
    /\ \E l_outcome \in LoadOutcomes, refs \in SecurityGroupRefs(limit) :
         LET loaded == Reload("get_associated_security_groups", l_outcome, refs,
                              "Error retrieving security groups")
             sg_ids == Map(LAMBDA sg : sg.GroupId, refs)
         IN  /\ l_outcome # "ok" => refs = <<>>
             /\ IF loaded.raised THEN Abort(loaded.calls)
                ELSE \E outcome \in Outcomes :
                       LET response == IF outcome = "ok" THEN Map(SecurityGroup, sg_ids)
                                       ELSE <<>>
                           c == IF l_outcome = "ok"
                                THEN query_security_groups(loaded.calls, sg_ids,
                                                           outcome, response)
                                ELSE loaded
                       IN  /\ (l_outcome # "ok" \/ sg_ids = <<>>) => outcome = "ok"
                           /\ IF c.raised THEN Abort(c.calls)
                              ELSE /\ security_groups' = c.value
                                   /\ queries' = queries \o c.calls
                                   /\ stdout' = stdout \o c.printed
                                   /\ pc' = "elastic_ips"
                                   /\ UNCHANGED <<instance_details, volumes,
                                                  network_interfaces, snapshots, amis,
                                                  elastic_ips, result>>
    /\ UNCHANGED frame

\* get_associated_elastic_ips, then the lists are combined and the result returned
discover_elastic_ips ==
    /\ pc = "elastic_ips"
    /\ \E outcome \in Outcomes, response \in AddressResponses(limit) :
         LET c == get_associated_elastic_ips(instance_id, outcome, response)
         IN  /\ outcome # "ok" => response = <<>>
             /\ IF c.raised THEN Abort(c.calls)
                ELSE /\ elastic_ips' = c.value
                     /\ queries' = queries \o c.calls
                     /\ stdout' = stdout \o c.printed
                     /\ Return(discovery_result(instance_id, instance_details, volumes,
                                                network_interfaces, snapshots, amis,
                                                security_groups, c.value))
                     /\ UNCHANGED <<instance_details, volumes, network_interfaces,
                                    snapshots, amis, security_groups>>
    /\ UNCHANGED frame

discover_all_resources ==
    \/ discover_instance
    \/ discover_volumes
    \/ discover_network_interfaces
    \/ discover_snapshots
    \/ discover_amis
    \/ discover_security_groups
    \/ discover_elastic_ips

-----------------------------------------------------------------------------
(* A caller of discover_all_resources on a constructed EC2ResourceDiscovery *)

\* the identifier the direct caller passes
ApiInstanceIds == {ExampleId}

InitLocals ==
    /\ instance_details = None
    /\ volumes = <<>>
    /\ network_interfaces = <<>>
    /\ snapshots = <<>>
    /\ amis = <<>>
    /\ security_groups = <<>>
    /\ elastic_ips = <<>>
    /\ result = None

NoFormatting ==
    /\ fmt_call = None
    /\ fmt_value = None

Init ==
    /\ credentials = "valid"
    /\ NoFormatting
    /\ entry = "api"
    /\ limit = MaxItems
    /\ pc = "discover"
    /\ args = NoArgs
    /\ instance_id \in ApiInstanceIds
    /\ session = TRUE
    /\ exit_code = NoExit
    /\ queries = <<>>
    /\ stdout = <<>>
    /\ files = <<>>
    /\ InitLocals

Next == discover_all_resources

Spec == Init /\ [][Next]_vars

-----------------------------------------------------------------------------
(* The command line: main of aws_ec2_resource_discovery.py *)

\* len(args.instance_id) != 19
IdLen == 19

StartsWith(s, prefix) ==
    /\ Len(s) >= Len(prefix)
    /\ SubSeq(s, 1, Len(prefix)) = prefix

\* the test of the format check: TRUE when main rejects the identifier
invalid_format(iid) == ~StartsWith(iid, <<"i", "-">>) \/ Len(iid) # IdLen

\* sys.exit(code)
Exit(code) ==
    /\ pc' = "exit"
    /\ exit_code' = code

\* mutant: the identifier is checked only after the discovery object was constructed
validate_after_construct ==
    /\ pc = "validate"
    /\ IF invalid_format(instance_id)
       THEN /\ stdout' = stdout \o <<"Error: Invalid instance ID format">>
            /\ session' = TRUE
            /\ Exit(1)
       ELSE /\ stdout' = stdout \o <<"AWS EC2 Resource Discovery Tool">>
            /\ pc' = "construct"
            /\ UNCHANGED <<exit_code, session>>
    /\ UNCHANGED <<given, args, instance_id, queries, files, locals, result>>

\* the format check and the banner
validate ==
    /\ pc = "validate"
    /\ IF invalid_format(instance_id)
       THEN /\ stdout' = stdout \o <<"Error: Invalid instance ID format">>
            /\ Exit(1)
       ELSE /\ stdout' = stdout \o <<"AWS EC2 Resource Discovery Tool">>
            /\ pc' = "construct"
            /\ UNCHANGED exit_code
    /\ UNCHANGED <<given, args, instance_id, session, queries, files,
                   locals, result>>

\* how boto3.Session(...) and the two client constructions end: without credentials
\* NoCredentialsError is raised; with credentials, valid or not, nothing is sent to
\* the provider, so they are not examined and only another error can be raised
session_outcomes(creds) ==
    IF creds = "missing" THEN {"NoCredentialsError"} ELSE {"ok", "Exception"}

\* EC2ResourceDiscovery(region_name, profile_name)
construct ==
    /\ pc = "construct"
    /\ \E outcome \in session_outcomes(credentials) :
         IF outcome = "ok"
         THEN /\ session' = TRUE
              /\ pc' = "discover"
              /\ UNCHANGED <<stdout, exit_code>>
         ELSE /\ stdout' = stdout \o
                    <<IF outcome = "NoCredentialsError"
                      THEN "Error: AWS credentials not found"
                      ELSE "Error initializing AWS session">>
              /\ Exit(1)
              /\ UNCHANGED session
    /\ UNCHANGED <<given, args, instance_id, queries, files, locals, result>>

\* if not result: exit; else the instance details are printed
check_result ==
    /\ pc = "returned"
    /\ entry = "cli"
    /\ IF result = None
       THEN /\ stdout' = stdout \o <<"Resource discovery failed.">>
            /\ Exit(1)
       ELSE /\ stdout' = stdout \o <<"Instance Details">>
            /\ pc' = "summary"
            /\ UNCHANGED exit_code
    /\ UNCHANGED <<given, args, instance_id, session, queries, files,
                   locals, result>>

\* mutant: the handler prints the error and forgets sys.exit(1)
Fail_without_exit ==
    /\ stdout' = stdout \o <<"Error">>
    /\ Exit(0)

\* except Exception in main: print the error, exit 1
Fail ==
    /\ stdout' = stdout \o <<"Error">>
    /\ Exit(1)

\* the summary table is formatted and printed; the formatter may raise
print_summary ==
    /\ pc = "summary"
    /\ \E raised \in BOOLEAN :
         IF raised THEN Fail
         ELSE /\ stdout' = stdout \o <<"Resource Summary">>
              /\ pc' = "tables"
              /\ UNCHANGED exit_code
    /\ UNCHANGED <<given, args, instance_id, session, queries, files,
                   locals, result>>

\* unless --summary-only, the detailed or the flat table is formatted and printed
print_tables ==
    /\ pc = "tables"
    /\ IF args.summary_only
       THEN /\ pc' = "csv"
            /\ UNCHANGED <<stdout, exit_code>>
       ELSE \E raised \in BOOLEAN :
              IF raised
              THEN /\ stdout' = stdout \o <<"Detailed Resource Information", "Error">>
                   /\ Exit(1)
              ELSE /\ stdout' = stdout \o <<"Detailed Resource Information",
                          IF args.detailed THEN "detailed_table" ELSE "simple_table">>
                   /\ pc' = "csv"
                   /\ UNCHANGED exit_code
    /\ UNCHANGED <<given, args, instance_id, session, queries, files,
                   locals, result>>

\* mutant: a failed CSV write is reported and main goes on to the JSON export
export_csv_goes_on ==
    /\ pc = "csv"
    /\ IF ~args.export_csv
       THEN /\ pc' = "json"
            /\ UNCHANGED <<stdout, exit_code, files>>
       ELSE \E written \in {"csv", "csv.partial", "nothing"} :
              /\ files' = IF written = "nothing" THEN files ELSE files \o <<written>>
              /\ stdout' = stdout \o <<IF written = "csv" THEN "Resources exported"
                                        ELSE "Error">>
              /\ pc' = "json"
              /\ UNCHANGED exit_code
    /\ UNCHANGED <<given, args, instance_id, session, queries, locals, result>>

\* mutant: export_to_csv flattens the resources in place, dropping their tags
export_csv_flattening_in_place ==
    /\ pc = "csv"
    /\ IF ~args.export_csv
       THEN /\ pc' = "json"
            /\ UNCHANGED <<stdout, exit_code, files, result>>
       ELSE /\ result' = [result EXCEPT !.resources =
                            [i \in DOMAIN @ |-> [f \in DOMAIN @[i] \ {"tags"} |-> @[i][f]]]]
            /\ \E written \in {"csv", "csv.partial", "nothing"} :
                 IF written = "csv"
                 THEN /\ files' = files \o <<"csv">>
                      /\ stdout' = stdout \o <<"Resources exported">>
                      /\ pc' = "json"
                      /\ UNCHANGED exit_code
                 ELSE /\ files' = IF written = "nothing" THEN files
                                  ELSE files \o <<written>>
                      /\ Fail
    /\ UNCHANGED <<given, args, instance_id, session, queries, locals>>

\* if --export-csv: export_to_csv writes the file, its message is printed; a failed
\* write raises and may leave a partial file
export_csv ==
    /\ pc = "csv"
    /\ IF ~args.export_csv
       THEN /\ pc' = "json"
            /\ UNCHANGED <<stdout, exit_code, files>>
       ELSE \E written \in {"csv", "csv.partial", "nothing"} :
              IF written = "csv"
              THEN /\ files' = files \o <<"csv">>
                   /\ stdout' = stdout \o <<"Resources exported">>
                   /\ pc' = "json"
                   /\ UNCHANGED exit_code
              ELSE /\ files' = IF written = "nothing" THEN files
                               ELSE files \o <<written>>
                   /\ Fail
    /\ UNCHANGED <<given, args, instance_id, session, queries, locals, result>>

\* if --export-json: export_to_json writes the file, its message is printed
export_json ==
    /\ pc = "json"
    /\ IF ~args.export_json
       THEN /\ pc' = "finish"
            /\ UNCHANGED <<stdout, exit_code, files>>
       ELSE \E written \in {"json", "json.partial", "nothing"} :
              IF written = "json"
              THEN /\ files' = files \o <<"json">>
                   /\ stdout' = stdout \o <<"Discovery result exported">>
                   /\ pc' = "finish"
                   /\ UNCHANGED exit_code
              ELSE /\ files' = IF written = "nothing" THEN files
                               ELSE files \o <<written>>
                   /\ Fail
    /\ UNCHANGED <<given, args, instance_id, session, queries, locals, result>>

\* the closing messages; main returns and the process ends with status 0
finish ==
    /\ pc = "finish"
    /\ stdout' = stdout \o <<"Resource discovery completed successfully!">>
    /\ Exit(0)
    /\ UNCHANGED <<given, args, instance_id, session, queries, files,
                   locals, result>>

\* the positions of main inside its try block
InTry == {"construct", "discover", "volumes", "network_interfaces", "snapshots",
          "amis", "security_groups", "elastic_ips", "returned", "summary", "tables",
          "csv", "json", "finish"}

\* except KeyboardInterrupt: the user interrupts main inside its try block
keyboard_interrupt ==
    /\ entry = "cli"
    /\ pc \in InTry
    /\ stdout' = stdout \o <<"Operation cancelled by user.">>
    /\ Exit(1)
    /\ UNCHANGED <<given, args, instance_id, session, queries, files,
                   locals, result>>

main ==
    \/ validate
    \/ construct
    \/ discover_all_resources
    \/ check_result
    \/ print_summary
    \/ print_tables
    \/ export_csv
    \/ export_json
    \/ finish
    \/ keyboard_interrupt

Args == [summary_only : BOOLEAN, detailed : BOOLEAN,
         export_csv : BOOLEAN, export_json : BOOLEAN]

Body(n, j) == [k \in 1..n |-> IF k = j THEN "g" ELSE "a"]

\* identifiers given on the command line: well-formed, too short, wrong prefix
CliInstanceIds == {ExampleId, <<"i", "-", "0">>, <<"x", "-">> \o Body(IdLen - 2, 0)}

Credentials == {"valid", "missing", "invalid"}

InitCli ==
    /\ credentials \in Credentials
    /\ NoFormatting
    /\ entry = "cli"
    /\ limit = CliMaxItems
    /\ pc = "validate"
    /\ args \in Args
    /\ instance_id \in CliInstanceIds
    /\ session = FALSE
    /\ exit_code = NoExit
    /\ queries = <<>>
    /\ stdout = <<>>
    /\ files = <<>>
    /\ InitLocals

NextCli == main

SpecCli == InitCli /\ [][NextCli]_vars

\* identifiers for the format check alone: three prefixes, 18 to 20 characters,
\* at most one character that is no hexadecimal digit
Prefixes == {<<"i", "-">>, <<"x", "-">>, <<"i", "_">>}

CandidateIds ==
    {prefix \o Body(n, j) : prefix \in Prefixes,
                            n \in (IdLen - 3)..(IdLen - 1), j \in 0..(IdLen - 1)}

InitValidate ==
    /\ credentials = "valid"
    /\ NoFormatting
    /\ entry = "cli"
    /\ limit = CliMaxItems
    /\ pc = "validate"
    /\ args = NoArgs
    /\ instance_id \in CandidateIds
    /\ session = FALSE
    /\ exit_code = NoExit
    /\ queries = <<>>
    /\ stdout = <<>>
    /\ files = <<>>
    /\ InitLocals

NextValidate == validate

SpecValidate == InitValidate /\ [][NextValidate]_vars

-----------------------------------------------------------------------------
(* Properties of discover_all_resources *)

Range(s) == {s[i] : i \in DOMAIN s}

\* the six collectors in the orchestrator's order, with the summary key, the
\* resource_type and the describe call of each
Collectors == <<"get_associated_volumes", "get_associated_network_interfaces",
                "get_associated_snapshots", "get_associated_ami",
                "get_associated_security_groups", "get_associated_elastic_ips">>
Kinds == <<"volumes", "network_interfaces", "snapshots", "amis", "security_groups",
           "elastic_ips">>
TypeName == <<"EBS Volume", "Network Interface", "EBS Snapshot", "AMI",
              "Security Group", "Elastic IP">>
DescribeOp == <<"describe_volumes", "describe_network_interfaces", "describe_snapshots",
                "describe_images", "describe_security_groups", "describe_addresses">>

ListOf(k) == <<volumes, network_interfaces, snapshots, amis, security_groups,
               elastic_ips>>[k]

OfType(resources, type) == SelectSeq(resources, LAMBDA r : r.resource_type = type)

Returned == pc = "returned" /\ result # None

\* collector k issued a provider call that raised ClientError
FailedCE(k) ==
    \E i \in DOMAIN queries :
        queries[i].by = Collectors[k] /\ IsClientError(queries[i].outcome)

\* collector k was invoked: each collector starts with a provider call
Invoked(k) == \E i \in DOMAIN queries : queries[i].by = Collectors[k]

\* some provider call raised an exception that is no ClientError
Uncaught == \E i \in DOMAIN queries : queries[i].outcome = "Error"

\* the identifiers, in order, of the provider's answer to collector k's describe call
\* (empty when the call was not issued or failed)
ProviderId(k, item) ==
    CASE k = 1 -> item.VolumeId
      [] k = 2 -> item.NetworkInterfaceId
      [] k = 3 -> item.SnapshotId
      [] k = 4 -> item.ImageId
      [] k = 5 -> item.GroupId
      [] k = 6 -> IF "AllocationId" \in DOMAIN item THEN item.AllocationId ELSE NA

Answered(k) ==
    LET hits == {i \in DOMAIN queries :
                    /\ queries[i].by = Collectors[k]
                    /\ queries[i].op = DescribeOp[k]
                    /\ queries[i].outcome = "ok"}
    IN  IF hits = {} THEN <<>>
        ELSE LET items == queries[CHOOSE i \in hits : TRUE].items
             IN  [j \in DOMAIN items |-> ProviderId(k, items[j])]

\* C1: in every result discover_all_resources returns, summary.total_resources is the
\* length of resources, whatever the provider answered and whichever collectors failed
C1_TotalIsLength ==
    result # None => result.summary.total_resources = Len(result.resources)

C1_Witness ==
    /\ Returned
    /\ Len(result.resources) >= 4
    /\ FailedCE(1)
    /\ FailedCE(5)

\* C2: in every result, each of the six summary counts is the number of entries of
\* resources with that kind's resource_type; the Instance entry is in none of them
C2_CountsMatchTypes ==
    result # None =>
        /\ \A k \in 1..6 :
              result.summary[Kinds[k]] = Len(OfType(result.resources, TypeName[k]))
        /\ \A k \in 1..6 : TypeName[k] # "EC2 Instance"
        /\ Len(OfType(result.resources, "EC2 Instance")) = 1

C2_Witness ==
    /\ Returned
    /\ result.summary.volumes = 2
    /\ result.summary.snapshots = 1
    /\ result.summary.amis = 0
    /\ result.summary.elastic_ips = 2

\* C3: in every result, resources is the Instance entry, then the Volume entries, the
\* NetworkInterface, Snapshot, Image, SecurityGroup and ElasticIP entries in that order,
\* and the entries of each kind are in the order of the provider's answer
C3_FixedOrder ==
    result # None =>
        LET r == result.resources
            kind(i) == CHOOSE k \in 1..6 : r[i].resource_type = TypeName[k]
        IN  /\ r[1].resource_type = "EC2 Instance"
            /\ r[1].resource_id = instance_id
            /\ \A i \in 2..Len(r) : r[i].resource_type \in Range(TypeName)
            /\ \A i \in 2..(Len(r) - 1) : kind(i) <= kind(i + 1)
            /\ \A k \in 1..6 :
                  LET got == OfType(r, TypeName[k])
                  IN  [j \in 1..Len(got) |-> got[j].resource_id] = Answered(k)

C3_Witness ==
    /\ Returned
    /\ Answered(1) = << <<"vol", 2>>, <<"vol", 1>> >>
    /\ Len(Answered(2)) = 2
    /\ Len(Answered(3)) = 2
    /\ Len(Answered(5)) = 2
    /\ Len(Answered(6)) = 2

\* C4: when the first instance fetch reports instance-not-found, discover_all_resources
\* returns None and issues no collector query
C4_NotFoundAborts ==
    (queries # <<>> /\ queries[1].outcome = "NotFound") =>
        /\ pc = "returned"
        /\ result = None
        /\ Len(queries) = 1
        /\ \A k \in 1..6 : ~Invoked(k)

C4_Witness ==
    /\ pc = "returned"
    /\ queries # <<>>
    /\ queries[1].by = "get_instance_details"
    /\ queries[1].outcome = "NotFound"

\* C5 as stated: whenever the first instance fetch does not report instance-not-found,
\* discover_all_resources returns a result
C5_OnlyNotFoundAborts ==
    (pc = "returned" /\ queries[1].outcome # "NotFound") => result # None

\* C5 amended: discover_all_resources returns a result exactly when the first instance
\* fetch answers and no provider call raises an exception other than ClientError;
\* a ClientError inside a collector never makes it return None
C5_AbortsOnFetchOrUncaught ==
    pc = "returned" =>
        (result # None <=> (queries[1].outcome = "ok" /\ ~Uncaught))

C5_Witness ==
    /\ Returned
    /\ \A k \in {1, 3, 4, 6} : FailedCE(k)

C7_NoVolumesNoSnapshotQuery ==
    \A i \in DOMAIN queries :
        (/\ queries[i].by = "get_associated_snapshots"
         /\ queries[i].op = "describe_volumes"
         /\ queries[i].items = <<>>) =>
            /\ snapshots = <<>>
            /\ \A j \in DOMAIN queries : queries[j].op # "describe_snapshots"

C7_Witness ==
    /\ pc = "amis"
    /\ volumes # <<>>
    /\ \E i \in DOMAIN queries :
          /\ queries[i].by = "get_associated_snapshots"
          /\ queries[i].outcome = "ok"
          /\ queries[i].items = <<>>

-----------------------------------------------------------------------------
(* Properties of the command line *)

HexDigits == {"0", "1", "2", "3", "4", "5", "6", "7", "8", "9",
              "a", "b", "c", "d", "e", "f", "A", "B", "C", "D", "E", "F"}

\* i- followed by 17 hexadecimal characters
MatchesPattern(iid) ==
    /\ Len(iid) = 19
    /\ iid[1] = "i"
    /\ iid[2] = "-"
    /\ \A k \in 3..Len(iid) : iid[k] \in HexDigits

Printed(message) == message \in Range(stdout)

FormatRejected == Printed("Error: Invalid instance ID format")

\* C8: the command line rejects, with the format error and exit status 1, every
\* identifier that is not i- followed by 17 hexadecimal characters
C8_RejectsEveryMalformedId ==
    (pc # "validate" /\ ~MatchesPattern(instance_id)) =>
        /\ pc = "exit"
        /\ exit_code = 1
        /\ FormatRejected

\* C9: when the command line rejects the identifier for its format, the process has
\* exited with no session created and no provider call issued
C9_RejectionBeforeAnyCall ==
    FormatRejected =>
        /\ pc = "exit"
        /\ exit_code = 1
        /\ ~session
        /\ queries = <<>>

C9_Witness ==
    /\ FormatRejected
    /\ pc = "exit"
    /\ Len(instance_id) = IdLen
    /\ args.export_json

\* validation, construction, discovery, rendering and every requested export went
\* through and nothing was raised up to main
AllSucceeded ==
    /\ ~FormatRejected
    /\ session
    /\ result # None
    /\ Printed("Resource Summary")
    /\ args.summary_only
          \/ Printed(IF args.detailed THEN "detailed_table" ELSE "simple_table")
    /\ args.export_csv => "csv" \in Range(files)
    /\ args.export_json => "json" \in Range(files)
    /\ ~Printed("Operation cancelled by user.")

ErrorMessages ==
    {"Error: Invalid instance ID format", "Error: AWS credentials not found",
     "Error initializing AWS session", "Error: Instance not found", "Unexpected error",
     "Resource discovery failed.", "Error"}

\* how many of the lines printed so far are in messages
Count(messages) == Cardinality({i \in DOMAIN stdout : stdout[i] \in messages})

\* the run got past the format check with credentials that are missing or invalid
BadCredentials == credentials # "valid" /\ ~invalid_format(instance_id)

\* C11: when the credentials are missing or invalid, no provider call is ever issued
\* (neither the instance fetch nor a collector query) and the process, unless the
\* user interrupts it, ends with a nonzero status having reported exactly one error
C11_CredentialErrorBeforeDiscovery ==
    BadCredentials =>
        /\ queries = <<>>
        /\ pc \notin {"volumes", "network_interfaces", "snapshots", "amis",
                      "security_groups", "elastic_ips"}
        /\ (pc = "exit" /\ ~Printed("Operation cancelled by user.")) =>
              /\ exit_code # 0
              /\ Count(ErrorMessages) = 1

IsPrefix(s, t) == Len(s) <= Len(t) /\ SubSeq(t, 1, Len(s)) = s

\* the summary table and, unless --summary-only, a resource table were printed
TablesPrinted ==
    /\ Printed("Resource Summary")
    /\ args.summary_only \/ Printed("detailed_table") \/ Printed("simple_table")

TableLines == {"Resource Summary", "Detailed Resource Information", "detailed_table",
               "simple_table"}
ExportLines == {"Resources exported", "Discovery result exported"}

\* an export was reached, attempted or done
ExportReached ==
    \/ pc \in {"csv", "json", "finish"}
    \/ files # <<>>
    \/ \E line \in ExportLines : Printed(line)

\* the CSV write raised: the tables are out, CSV was asked for, main's handler
\* printed the error and the CSV message never appeared
CsvFailed ==
    /\ args.export_csv
    /\ TablesPrinted
    /\ Printed("Error")
    /\ ~Printed("Resources exported")

\* the JSON write raised
JsonFailed ==
    /\ args.export_json
    /\ TablesPrinted
    /\ args.export_csv => Printed("Resources exported")
    /\ Printed("Error")
    /\ ~Printed("Discovery result exported")

C12_ExportsInOrder ==
    /\ ExportReached => (result # None /\ TablesPrinted)
    /\ \A i, j \in DOMAIN stdout :
         (stdout[i] \in TableLines /\ stdout[j] \in ExportLines) => i < j
    /\ \A i, j \in DOMAIN files :
         (files[i] \in {"json", "json.partial"} /\ files[j] \in {"csv", "csv.partial"})
            => j < i

C12_FailureStopsExports ==
    /\ (CsvFailed \/ JsonFailed) =>
          /\ pc = "exit"
          /\ exit_code # 0
          /\ ~Printed("Resource discovery completed successfully!")
    /\ CsvFailed =>
          /\ \A f \in Range(files) : f \notin {"json", "json.partial"}
          /\ ~Printed("Discovery result exported")
    /\ JsonFailed => (args.export_csv => "csv" \in Range(files))

\* no step takes back a printed line or a written file, partial files included
C12_OutputKept == IsPrefix(stdout, stdout') /\ IsPrefix(files, files')

\* C12: in the command line an export is reached only after discovery returned a
\* result and the summary table and any resource table were printed; when an export
\* write fails the process exits nonzero, no later export is attempted (a CSV failure
\* prevents the JSON export), the success message is not printed, and what was
\* already printed or written stays as it is
C12_ExportAfterTables ==
    /\ [](C12_ExportsInOrder /\ C12_FailureStopsExports)
    /\ [][C12_OutputKept]_vars

C12_Witness ==
    /\ pc = "exit"
    /\ CsvFailed
    /\ files = <<"csv.partial">>
    /\ args.export_json
    /\ Printed("detailed_table")

-----------------------------------------------------------------------------
(* The formatter: TableFormatter of table_formatter.py.  Text is a sequence of   *)
(* characters; a dict is the sequence of its <<key, value>> items in insertion    *)
(* order; a table is the sequence of its rows (table_data), the drawing of the    *)
(* rows by tabulate being left to that library.                                   *)

LowerCase == <<"a", "b", "c", "d", "e", "f", "g", "h", "i", "j", "k", "l", "m", "n", "o", "p", "q", "r", "s", "t", "u", "v", "w", "x", "y", "z">>
UpperCase == <<"A", "B", "C", "D", "E", "F", "G", "H", "I", "J", "K", "L", "M", "N", "O", "P", "Q", "R", "S", "T", "U", "V", "W", "X", "Y", "Z">>
Digits == <<"0", "1", "2", "3", "4", "5", "6", "7", "8", "9">>

IsLower(c) == \E i \in DOMAIN LowerCase : LowerCase[i] = c
IsUpper(c) == \E i \in DOMAIN UpperCase : UpperCase[i] = c
IsCased(c) == IsLower(c) \/ IsUpper(c)

\* str.upper and str.lower of one character
ToUpper(c) ==
    IF IsLower(c) THEN UpperCase[CHOOSE i \in DOMAIN LowerCase : LowerCase[i] = c] ELSE c
ToLower(c) ==
    IF IsUpper(c) THEN LowerCase[CHOOSE i \in DOMAIN UpperCase : UpperCase[i] = c] ELSE c

\* str.replace(old, new) for single characters
replace(s, old, new) == [i \in 1..Len(s) |-> IF s[i] = old THEN new ELSE s[i]]

\* str.title(): a cased character is upper-cased when the character before it is
\* not cased, and lower-cased when it is
RECURSIVE title_scan(_, _)
title_scan(s, previous_is_cased) ==
    IF s = <<>> THEN <<>>
    ELSE LET c == Head(s)
         IN  <<IF ~IsCased(c) THEN c
               ELSE IF previous_is_cased THEN ToLower(c) ELSE ToUpper(c)>>
             \o title_scan(Tail(s), IsCased(c))

title(s) == title_scan(s, FALSE)

\* dict.get(key, default)
get(mapping, key, default) ==
    IF \E i \in DOMAIN mapping : mapping[i][1] = key
    THEN mapping[CHOOSE i \in DOMAIN mapping : mapping[i][1] = key][2]
    ELSE default

total_resources == <<"t", "o", "t", "a", "l", "_", "r", "e", "s", "o", "u", "r", "c", "e", "s">>
TOTAL == <<"T", "O", "T", "A", "L">>

\* one row of the summary table: 'Resource Type', 'Count'
SummaryRow(label, count) == [resource_type |-> label, count |-> count]

\* mutant: total_resources is not skipped and gets a row of its own as well
RECURSIVE summary_rows_with_total(_)
summary_rows_with_total(items) ==
    IF items = <<>> THEN <<>>
    ELSE <<SummaryRow(title(replace(Head(items)[1], "_", " ")), Head(items)[2])>>
         \o summary_rows_with_total(Tail(items))

\* the loop of format_summary_table over summary.items()
RECURSIVE summary_rows(_)
summary_rows(items) ==
    IF items = <<>> THEN <<>>
    ELSE (IF Head(items)[1] # total_resources
          THEN <<SummaryRow(title(replace(Head(items)[1], "_", " ")), Head(items)[2])>>
          ELSE <<>>)
         \o summary_rows(Tail(items))

\* format_summary_table: table_data
format_summary_table(summary) ==
    summary_rows(summary) \o <<SummaryRow(TOTAL, get(summary, total_resources, 0))>>

\* a formatter call and its return
FormatCall(op, arg) == [op |-> op, arg |-> arg]

Apply(op, value) ==
    /\ pc = "format"
    /\ fmt_call.op = op
    /\ fmt_value' = value
    /\ pc' = "formatted"
    /\ UNCHANGED <<credentials, fmt_call, entry, limit, args, instance_id, session,
                   exit_code, queries, stdout, files, locals, result>>

call_format_summary_table ==
    Apply("format_summary_table", format_summary_table(fmt_call.arg))

\* str.join
RECURSIVE join(_, _)
join(separator, parts) ==
    IF parts = <<>> THEN <<>>
    ELSE IF Len(parts) = 1 THEN parts[1]
    ELSE parts[1] \o separator \o join(separator, Tail(parts))

\* str(n) of a natural number
RECURSIVE str_int(_)
str_int(n) ==
    IF n < 10 THEN <<Digits[n + 1]>>
    ELSE str_int(n \div 10) \o <<Digits[(n % 10) + 1]>>

\* tags_list[:2], details[:3]
take(s, n) == SubSeq(s, 1, Min(n, Len(s)))

\* f"{k}:{v}" for each of the first shown_tags items
tags_list(tags, shown_tags) ==
    [i \in 1..Min(shown_tags, Len(tags)) |-> tags[i][1] \o <<":">> \o tags[i][2]]

\* the tags shown before the (+N more) note
ShownTags == 2

\* mutant: the note counts every tag, the shown ones included
format_tags_counting_all(tags) ==
    IF tags = <<>> THEN <<"N", "o", "n", "e">>
    ELSE LET shown == join(<<",", " ">>, tags_list(tags, ShownTags))
         IN  IF Len(tags) > ShownTags
             THEN shown \o <<" ", "(", "+">> \o str_int(Len(tags)) \o <<" ", "m", "o", "r", "e", ")">>
             ELSE shown

\* _format_tags
format_tags(tags) ==
    IF tags = <<>> THEN <<"N", "o", "n", "e">>
    ELSE LET shown == join(<<",", " ">>, tags_list(tags, ShownTags))
         IN  IF Len(tags) > ShownTags
             THEN shown \o <<" ", "(", "+">> \o str_int(Len(tags) - ShownTags) \o <<" ", "m", "o", "r", "e", ")">>
             ELSE shown

call_format_tags == Apply("format_tags", format_tags(fmt_call.arg))

\* Python values: a field of a resource is a str, None, an int, a bool, a list of
\* str or a dict from str to str
PyStr(chars) == [str |-> chars]
PyInt(n) == [int |-> n]
PyBool(b) == [bool |-> b]
PyList(elements) == [list |-> elements]
PyDict(items) == [dict |-> items]
PyNone == None

\* type(value).__name__ and what the value holds
type_of(value) == CHOOSE t \in DOMAIN value : TRUE
payload(value) == value[type_of(value)]
NotAvailable == PyStr(<<"N", "/", "A">>)

\* the characters of the field names
KeyText ==
    [architecture |-> <<"a", "r", "c", "h", "i", "t", "e", "c", "t", "u", "r", "e">>,
     association_id |-> <<"a", "s", "s", "o", "c", "i", "a", "t", "i", "o", "n", "_", "i", "d">>,
     availability_zone |-> <<"a", "v", "a", "i", "l", "a", "b", "i", "l", "i", "t", "y", "_", "z", "o", "n", "e">>,
     creation_date |-> <<"c", "r", "e", "a", "t", "i", "o", "n", "_", "d", "a", "t", "e">>,
     delete_on_termination |-> <<"d", "e", "l", "e", "t", "e", "_", "o", "n", "_", "t", "e", "r", "m", "i", "n", "a", "t", "i", "o", "n">>,
     description |-> <<"d", "e", "s", "c", "r", "i", "p", "t", "i", "o", "n">>,
     device |-> <<"d", "e", "v", "i", "c", "e">>,
     domain |-> <<"d", "o", "m", "a", "i", "n">>,
     encrypted |-> <<"e", "n", "c", "r", "y", "p", "t", "e", "d">>,
     image_id |-> <<"i", "m", "a", "g", "e", "_", "i", "d">>,
     inbound_rules |-> <<"i", "n", "b", "o", "u", "n", "d", "_", "r", "u", "l", "e", "s">>,
     instance_type |-> <<"i", "n", "s", "t", "a", "n", "c", "e", "_", "t", "y", "p", "e">>,
     interface_type |-> <<"i", "n", "t", "e", "r", "f", "a", "c", "e", "_", "t", "y", "p", "e">>,
     iops |-> <<"i", "o", "p", "s">>,
     key_name |-> <<"k", "e", "y", "_", "n", "a", "m", "e">>,
     launch_time |-> <<"l", "a", "u", "n", "c", "h", "_", "t", "i", "m", "e">>,
     name |-> <<"n", "a", "m", "e">>,
     network_interface_id |-> <<"n", "e", "t", "w", "o", "r", "k", "_", "i", "n", "t", "e", "r", "f", "a", "c", "e", "_", "i", "d">>,
     outbound_rules |-> <<"o", "u", "t", "b", "o", "u", "n", "d", "_", "r", "u", "l", "e", "s">>,
     platform |-> <<"p", "l", "a", "t", "f", "o", "r", "m">>,
     private_ip |-> <<"p", "r", "i", "v", "a", "t", "e", "_", "i", "p">>,
     progress |-> <<"p", "r", "o", "g", "r", "e", "s", "s">>,
     public |-> <<"p", "u", "b", "l", "i", "c">>,
     public_ip |-> <<"p", "u", "b", "l", "i", "c", "_", "i", "p">>,
     resource_id |-> <<"r", "e", "s", "o", "u", "r", "c", "e", "_", "i", "d">>,
     resource_type |-> <<"r", "e", "s", "o", "u", "r", "c", "e", "_", "t", "y", "p", "e">>,
     root_device_type |-> <<"r", "o", "o", "t", "_", "d", "e", "v", "i", "c", "e", "_", "t", "y", "p", "e">>,
     security_groups |-> <<"s", "e", "c", "u", "r", "i", "t", "y", "_", "g", "r", "o", "u", "p", "s">>,
     size_gb |-> <<"s", "i", "z", "e", "_", "g", "b">>,
     source_dest_check |-> <<"s", "o", "u", "r", "c", "e", "_", "d", "e", "s", "t", "_", "c", "h", "e", "c", "k">>,
     start_time |-> <<"s", "t", "a", "r", "t", "_", "t", "i", "m", "e">>,
     state |-> <<"s", "t", "a", "t", "e">>,
     status |-> <<"s", "t", "a", "t", "u", "s">>,
     subnet_id |-> <<"s", "u", "b", "n", "e", "t", "_", "i", "d">>,
     tags |-> <<"t", "a", "g", "s">>,
     throughput |-> <<"t", "h", "r", "o", "u", "g", "h", "p", "u", "t">>,
     virtualization_type |-> <<"v", "i", "r", "t", "u", "a", "l", "i", "z", "a", "t", "i", "o", "n", "_", "t", "y", "p", "e">>,
     volume_id |-> <<"v", "o", "l", "u", "m", "e", "_", "i", "d">>,
     volume_size_gb |-> <<"v", "o", "l", "u", "m", "e", "_", "s", "i", "z", "e", "_", "g", "b">>,
     volume_type |-> <<"v", "o", "l", "u", "m", "e", "_", "t", "y", "p", "e">>,
     vpc_id |-> <<"v", "p", "c", "_", "i", "d">>]

\* repr of a str inside a list or dict
quoted(chars) == <<"'">> \o chars \o <<"'">>

\* str(value), as f"{value}" and str(value) give it
to_text(value) ==
    CASE type_of(value) = "str" -> payload(value)
      [] type_of(value) = "int" -> str_int(payload(value))
      [] type_of(value) = "bool" -> IF payload(value) THEN <<"T", "r", "u", "e">> ELSE <<"F", "a", "l", "s", "e">>
      [] type_of(value) = "none" -> <<"N", "o", "n", "e">>
      [] type_of(value) = "list" ->
            <<"[">> \o join(<<",", " ">>, [i \in DOMAIN payload(value) |-> quoted(payload(value)[i])])
            \o <<"]">>
      [] type_of(value) = "dict" ->
            <<"{">> \o join(<<",", " ">>, [i \in DOMAIN payload(value) |->
                        quoted(payload(value)[i][1]) \o <<":", " ">> \o quoted(payload(value)[i][2])])
            \o <<"}">>

skip_fields == {"resource_type", "resource_id", "tags"}

\* str(value)[:50]
CollectionWidth == 50
\* details[:3]
ShownDetails == 3

\* mutant: the ellipsis is added only to a text that was cut
detail_of_collection_cut_when_long(key, value) ==
    IF Len(to_text(value)) > CollectionWidth
    THEN KeyText[key] \o <<":", " ">> \o take(to_text(value), CollectionWidth) \o <<".", ".", ".">>
    ELSE KeyText[key] \o <<":", " ">> \o to_text(value)

\* f"{key}: {str(value)[:50]}..."
detail_of_collection(key, value) ==
    KeyText[key] \o <<":", " ">> \o take(to_text(value), CollectionWidth) \o <<".", ".", ".">>

\* the loop of _format_resource_details over resource.items()
RECURSIVE details_of(_)
details_of(items) ==
    IF items = <<>> THEN <<>>
    ELSE LET key == Head(items)[1]
             value == Head(items)[2]
         IN  (IF key \notin skip_fields /\ type_of(value) # "none" /\ value # NotAvailable
              THEN IF type_of(value) \in {"list", "dict"}
                   THEN IF payload(value) # <<>> THEN <<detail_of_collection(key, value)>>
                        ELSE <<>>
                   ELSE <<KeyText[key] \o <<":", " ">> \o to_text(value)>>
              ELSE <<>>)
             \o details_of(Tail(items))

\* _format_resource_details
format_resource_details(resource) ==
    join(<<";", " ">>, take(details_of(resource), ShownDetails))

\* the text get() falls back to when a resource has no resource_type, a header
Unknown == PyStr(<<"U", "n", "k", "n", "o", "w", "n">>)

\* format_resources_table: "No resources found." or table_data with the columns
\* 'Resource Type', 'Resource ID', 'Details'
format_resources_table(resources) ==
    IF resources = <<>> THEN PyStr(<<"N", "o", " ", "r", "e", "s", "o", "u", "r", "c", "e", "s", " ", "f", "o", "u", "n", "d", ".">>)
    ELSE [i \in DOMAIN resources |->
            [resource_type |-> get(resources[i], "resource_type", Unknown),
             resource_id |-> get(resources[i], "resource_id", NotAvailable),
             details |-> format_resource_details(resources[i])]]

call_format_resource_details ==
    Apply("format_resource_details", format_resource_details(fmt_call.arg))

call_format_resources_table ==
    Apply("format_resources_table", format_resources_table(fmt_call.arg))

\* resource.get(key, 'N/A')
field(resource, key) == get(resource, key, NotAvailable)

\* bool(value)
truthy(value) ==
    CASE type_of(value) = "none" -> FALSE
      [] type_of(value) = "bool" -> payload(value)
      [] type_of(value) = "int" -> payload(value) # 0
      [] OTHER -> payload(value) # <<>>

\* self._format_tags(resource.get('tags', {}))
tags_cell(resource) == PyStr(format_tags(payload(get(resource, "tags", PyDict(<<>>)))))

\* ', '.join(interface.get('security_groups', []))
security_groups_cell(resource) ==
    PyStr(join(<<",", " ">>, payload(get(resource, "security_groups", PyList(<<>>)))))

\* resource.get(key, 'N/A')[:n] if resource.get(key) else 'N/A'
prefix_cell(resource, key, n) ==
    IF truthy(get(resource, key, None)) THEN PyStr(take(payload(field(resource, key)), n))
    ELSE NotAvailable

\* the widths at which the detailed tables cut a text
SnapshotDescriptionWidth == 30
ImageNameWidth == 30
SecurityGroupDescriptionWidth == 40

\* mutant: a text of exactly width characters is cut as well
cut_cell_at_width(resource, key, width) ==
    IF Len(payload(get(resource, key, PyStr(<<>>)))) >= width
    THEN PyStr(take(payload(field(resource, key)), width) \o <<".", ".", ".">>)
    ELSE field(resource, key)

\* resource.get(key, 'N/A')[:width] + '...' if len(resource.get(key, '')) > width
\* else resource.get(key, 'N/A')
cut_cell(resource, key, width) ==
    IF Len(payload(get(resource, key, PyStr(<<>>)))) > width
    THEN PyStr(take(payload(field(resource, key)), width) \o <<".", ".", ".">>)
    ELSE field(resource, key)

\* a table: for every resource a row, the sequence of its <<header, cell>> pairs
Table(resource_list, Row(_)) == [i \in DOMAIN resource_list |-> Row(resource_list[i])]

format_ec2_instances_table(instances) ==
    Table(instances, LAMBDA resource :
        <<<<"Instance ID", field(resource, "resource_id")>>,
          <<"Instance Type", field(resource, "instance_type")>>,
          <<"State", field(resource, "state")>>,
          <<"AZ", field(resource, "availability_zone")>>,
          <<"VPC ID", field(resource, "vpc_id")>>,
          <<"Private IP", field(resource, "private_ip")>>,
          <<"Public IP", field(resource, "public_ip")>>,
          <<"Tags", tags_cell(resource)>>>>)

format_volumes_table(volume_list) ==
    Table(volume_list, LAMBDA resource :
        <<<<"Volume ID", field(resource, "resource_id")>>,
          <<"Size (GB)", field(resource, "size_gb")>>,
          <<"Type", field(resource, "volume_type")>>,
          <<"State", field(resource, "state")>>,
          <<"Device", field(resource, "device")>>,
          <<"Encrypted", field(resource, "encrypted")>>,
          <<"IOPS", field(resource, "iops")>>,
          <<"Delete on Term", field(resource, "delete_on_termination")>>,
          <<"Tags", tags_cell(resource)>>>>)

format_network_interfaces_table(interfaces) ==
    Table(interfaces, LAMBDA resource :
        <<<<"Interface ID", field(resource, "resource_id")>>,
          <<"Type", field(resource, "interface_type")>>,
          <<"Status", field(resource, "status")>>,
          <<"Subnet ID", field(resource, "subnet_id")>>,
          <<"Private IP", field(resource, "private_ip")>>,
          <<"Public IP", field(resource, "public_ip")>>,
          <<"Security Groups", security_groups_cell(resource)>>,
          <<"Tags", tags_cell(resource)>>>>)

format_snapshots_table(snapshot_list) ==
    Table(snapshot_list, LAMBDA resource :
        <<<<"Snapshot ID", field(resource, "resource_id")>>,
          <<"Volume ID", field(resource, "volume_id")>>,
          <<"Size (GB)", field(resource, "volume_size_gb")>>,
          <<"State", field(resource, "state")>>,
          <<"Progress", field(resource, "progress")>>,
          <<"Start Time", prefix_cell(resource, "start_time", 19)>>,
          <<"Encrypted", field(resource, "encrypted")>>,
          <<"Description", cut_cell(resource, "description", SnapshotDescriptionWidth)>>,
          <<"Tags", tags_cell(resource)>>>>)

format_amis_table(ami_list) ==
    Table(ami_list, LAMBDA resource :
        <<<<"AMI ID", field(resource, "resource_id")>>,
          <<"Name", cut_cell(resource, "name", ImageNameWidth)>>,
          <<"State", field(resource, "state")>>,
          <<"Architecture", field(resource, "architecture")>>,
          <<"Platform", field(resource, "platform")>>,
          <<"Virtualization", field(resource, "virtualization_type")>>,
          <<"Root Device", field(resource, "root_device_type")>>,
          <<"Public", field(resource, "public")>>,
          <<"Creation Date", prefix_cell(resource, "creation_date", 10)>>,
          <<"Tags", tags_cell(resource)>>>>)

format_security_groups_table(groups) ==
    Table(groups, LAMBDA resource :
        <<<<"Security Group ID", field(resource, "resource_id")>>,
          <<"Name", field(resource, "name")>>,
          <<"Description", cut_cell(resource, "description", SecurityGroupDescriptionWidth)>>,
          <<"VPC ID", field(resource, "vpc_id")>>,
          <<"Inbound Rules", field(resource, "inbound_rules")>>,
          <<"Outbound Rules", field(resource, "outbound_rules")>>,
          <<"Tags", tags_cell(resource)>>>>)

format_elastic_ips_table(addresses) ==
    Table(addresses, LAMBDA resource :
        <<<<"Allocation ID", field(resource, "resource_id")>>,
          <<"Public IP", field(resource, "public_ip")>>,
          <<"Private IP", field(resource, "private_ip")>>,
          <<"Domain", field(resource, "domain")>>,
          <<"Network Interface", field(resource, "network_interface_id")>>,
          <<"Association ID", field(resource, "association_id")>>,
          <<"Tags", tags_cell(resource)>>>>)

format_generic_table(resource_list) ==
    Table(resource_list, LAMBDA resource :
        <<<<"Resource ID", field(resource, "resource_id")>>,
          <<"Details", PyStr(format_resource_details(resource))>>>>)

\* the resource_type values the detailed table knows
TypeEC2Instance == PyStr(<<"E", "C", "2", " ", "I", "n", "s", "t", "a", "n", "c", "e">>)
TypeEBSVolume == PyStr(<<"E", "B", "S", " ", "V", "o", "l", "u", "m", "e">>)
TypeNetworkInterface == PyStr(<<"N", "e", "t", "w", "o", "r", "k", " ", "I", "n", "t", "e", "r", "f", "a", "c", "e">>)
TypeEBSSnapshot == PyStr(<<"E", "B", "S", " ", "S", "n", "a", "p", "s", "h", "o", "t">>)
TypeAMI == PyStr(<<"A", "M", "I">>)
TypeSecurityGroup == PyStr(<<"S", "e", "c", "u", "r", "i", "t", "y", " ", "G", "r", "o", "u", "p">>)
TypeElasticIP == PyStr(<<"E", "l", "a", "s", "t", "i", "c", " ", "I", "P">>)

\* resource_groups after the grouping loop: <<resource_type, resource_list>> items
\* in the order the types first occur
RECURSIVE resource_groups(_, _)
resource_groups(resources, groups) ==
    IF resources = <<>> THEN groups
    ELSE LET resource == Head(resources)
             resource_type == get(resource, "resource_type", Unknown)
         IN  resource_groups(Tail(resources),
                 IF \E i \in DOMAIN groups : groups[i][1] = resource_type
                 THEN [i \in DOMAIN groups |->
                         IF groups[i][1] = resource_type
                         THEN <<resource_type, Append(groups[i][2], resource)>>
                         ELSE groups[i]]
                 ELSE Append(groups, <<resource_type, <<resource>>>>))

\* mutant: the Elastic IP branch is missing and those groups get the generic table
table_of_without_elastic_ips(resource_type, resource_list) ==
    CASE resource_type = TypeEC2Instance -> format_ec2_instances_table(resource_list)
      [] resource_type = TypeEBSVolume -> format_volumes_table(resource_list)
      [] resource_type = TypeNetworkInterface -> format_network_interfaces_table(resource_list)
      [] resource_type = TypeEBSSnapshot -> format_snapshots_table(resource_list)
      [] resource_type = TypeAMI -> format_amis_table(resource_list)
      [] resource_type = TypeSecurityGroup -> format_security_groups_table(resource_list)
      [] OTHER -> format_generic_table(resource_list)

\* the if / elif chain on resource_type
table_of(resource_type, resource_list) ==
    CASE resource_type = TypeEC2Instance -> format_ec2_instances_table(resource_list)
      [] resource_type = TypeEBSVolume -> format_volumes_table(resource_list)
      [] resource_type = TypeNetworkInterface -> format_network_interfaces_table(resource_list)
      [] resource_type = TypeEBSSnapshot -> format_snapshots_table(resource_list)
      [] resource_type = TypeAMI -> format_amis_table(resource_list)
      [] resource_type = TypeSecurityGroup -> format_security_groups_table(resource_list)
      [] resource_type = TypeElasticIP -> format_elastic_ips_table(resource_list)
      [] OTHER -> format_generic_table(resource_list)

\* format_detailed_resources_table: "No resources found." or formatted_tables, here
\* one record per group with its heading f"\n## {resource_type}s\n" and its table
format_detailed_resources_table(resources) ==
    IF resources = <<>> THEN PyStr(<<"N", "o", " ", "r", "e", "s", "o", "u", "r", "c", "e", "s", " ", "f", "o", "u", "n", "d", ".">>)
    ELSE LET groups == resource_groups(resources, <<>>)
         IN  [i \in DOMAIN groups |->
                [heading |-> <<"\n", "#", "#", " ">> \o payload(groups[i][1]) \o <<"s", "\n">>,
                 table |-> table_of(groups[i][1], groups[i][2])]]

call_format_detailed_resources_table ==
    Apply("format_detailed_resources_table",
          format_detailed_resources_table(fmt_call.arg))

\* flattened[column] = value: a new key goes last, a known key keeps its place
assign(mapping, column, value) ==
    IF \E i \in DOMAIN mapping : mapping[i][1] = column
    THEN [i \in DOMAIN mapping |->
            IF mapping[i][1] = column THEN <<column, value>> ELSE mapping[i]]
    ELSE Append(mapping, <<column, value>>)

\* mutant: a dict's items are stored under their own keys, without the field's name
assignments_unprefixed(key, value) ==
    CASE type_of(value) = "dict" ->
            [i \in DOMAIN payload(value) |->
                <<payload(value)[i][1], PyStr(payload(value)[i][2])>>]
      [] type_of(value) = "list" ->
            <<<<KeyText[key], PyStr(join(<<",", " ">>, payload(value)))>>>>
      [] OTHER -> <<<<KeyText[key], value>>>>

\* what one item of a resource stores in flattened: f"{key}_{sub_key}" for each item
\* of a dict, ', '.join(map(str, value)) for a list, the value itself otherwise
assignments(key, value) ==
    CASE type_of(value) = "dict" ->
            [i \in DOMAIN payload(value) |->
                <<KeyText[key] \o <<"_">> \o payload(value)[i][1],
                  PyStr(payload(value)[i][2])>>]
      [] type_of(value) = "list" ->
            <<<<KeyText[key], PyStr(join(<<",", " ">>, payload(value)))>>>>
      [] OTHER -> <<<<KeyText[key], value>>>>

RECURSIVE assign_all(_, _)
assign_all(mapping, pairs) ==
    IF pairs = <<>> THEN mapping
    ELSE assign_all(assign(mapping, Head(pairs)[1], Head(pairs)[2]), Tail(pairs))

\* the inner loop of export_to_csv: flattened for one resource
RECURSIVE flatten(_, _)
flatten(items, flattened) ==
    IF items = <<>> THEN flattened
    ELSE flatten(Tail(items),
                 assign_all(flattened, assignments(Head(items)[1], Head(items)[2])))

\* the cell of a row that has no value for a column
NaN == [nan |-> TRUE]

\* the columns of pd.DataFrame(list of dicts): every key, in the order first seen
RECURSIVE columns_of(_, _)
columns_of(dicts, columns) ==
    IF dicts = <<>> THEN columns
    ELSE columns_of(Tail(dicts),
            columns \o SelectSeq([i \in DOMAIN Head(dicts) |-> Head(dicts)[i][1]],
                                 LAMBDA column : column \notin Range(columns)))

\* pd.DataFrame(flattened_resources), as df.to_csv(filename, index=False) writes it:
\* the header line and one line per dict
DataFrame(dicts) ==
    LET columns == columns_of(dicts, <<>>)
    IN  [columns |-> columns,
         rows |-> [i \in DOMAIN dicts |->
                     [c \in DOMAIN columns |-> get(dicts[i], columns[c], NaN)]]]

\* export_to_csv: the file written
export_to_csv(resources) ==
    DataFrame([i \in DOMAIN resources |-> flatten(resources[i], <<>>)])

call_export_to_csv == Apply("export_to_csv", export_to_csv(fmt_call.arg))

-----------------------------------------------------------------------------
(* The formatter: the calls under study *)

\* largest count in a summary
MaxCount == 2

\* the keys of the summary discover_all_resources builds, in its order
SummaryKeys == <<<<"t", "o", "t", "a", "l", "_", "r", "e", "s", "o", "u", "r", "c", "e", "s">>,
                 <<"v", "o", "l", "u", "m", "e", "s">>,
                 <<"n", "e", "t", "w", "o", "r", "k", "_", "i", "n", "t", "e", "r", "f", "a", "c", "e", "s">>,
                 <<"s", "n", "a", "p", "s", "h", "o", "t", "s">>,
                 <<"a", "m", "i", "s">>,
                 <<"s", "e", "c", "u", "r", "i", "t", "y", "_", "g", "r", "o", "u", "p", "s">>,
                 <<"e", "l", "a", "s", "t", "i", "c", "_", "i", "p", "s">>>>

\* other keys a caller may pass: upper case inside, a digit, two underscores
OtherKeys == <<<<"e", "b", "s", "_", "V", "o", "l", "u", "m", "e", "s">>, <<"e", "c", "2", "_", "x">>, <<"a", "_", "_", "b">>>>

\* orders and selections of keys: the summary's own, without its total, the total
\* last, the total in the middle, no kind at all, unusual keys
KeyLists ==
    {SummaryKeys, Tail(SummaryKeys), Tail(SummaryKeys) \o <<total_resources>>,
     <<SummaryKeys[2], total_resources, SummaryKeys[3]>>, <<total_resources>>, <<>>,
     OtherKeys, <<total_resources>> \o Reverse(OtherKeys)}

SummaryMappings ==
    {[i \in 1..Len(keys) |-> <<keys[i], (first + i) % (MaxCount + 1)>>] :
        keys \in KeyLists, first \in 0..MaxCount}

\* most tags on one resource
MaxTags == 12

\* the tags of the instance in the test data
ExampleTags == <<<<<<"N", "a", "m", "e">>, <<"W", "e", "b", "S", "e", "r", "v", "e", "r">>>>, <<<<"E", "n", "v", "i", "r", "o", "n", "m", "e", "n", "t">>, <<"P", "r", "o", "d", "u", "c", "t", "i", "o", "n">>>>, <<<<"O", "w", "n", "e", "r">>, <<"D", "e", "v", "T", "e", "a", "m">>>>>>

\* n tags k1:v1 .. kn:vn, or with empty values
NumberedTags(n, valued) ==
    [i \in 1..n |-> <<<<"k">> \o str_int(i), IF valued THEN <<"v">> \o str_int(i) ELSE <<>>>>]

TagMappings ==
    {NumberedTags(n, valued) : n \in 0..MaxTags, valued \in BOOLEAN}
        \cup {ExampleTags, take(ExampleTags, 2)}

\* most elements of a list-valued field
MaxElements == 7

\* the list ['sg-1', .., 'sg-n']
GroupIds(n) == [i \in 1..n |-> <<"s", "g", "-">> \o str_int(i)]

\* values a field may hold: None, the placeholder, a text, lists from empty to longer
\* than 50 characters when written out, an empty and a one-item dict
FieldValues ==
    {PyNone, NotAvailable, PyStr(<<"/", "d", "e", "v", "/", "s", "d", "f">>), PyDict(<<>>), PyDict(<<<<<<"N", "a", "m", "e">>, <<"W", "e", "b", "S", "e", "r", "v", "e", "r">>>>>>)}
        \cup {PyList(GroupIds(n)) : n \in 0..MaxElements}

\* a record whose first two fields after the identifier hold any of these values
DetailRecord(first, second) ==
    <<<<"resource_type", PyStr(<<"N", "e", "t", "w", "o", "r", "k", " ", "I", "n", "t", "e", "r", "f", "a", "c", "e">>)>>,
      <<"resource_id", PyStr(<<"e", "n", "i", "-", "1">>)>>,
      <<"security_groups", first>>,
      <<"device", second>>,
      <<"tags", PyDict(<<<<<<"N", "a", "m", "e">>, <<"W", "e", "b", "S", "e", "r", "v", "e", "r">>>>>>)>>,
      <<"status", PyStr(<<"i", "n", "-", "u", "s", "e">>)>>,
      <<"size_gb", PyInt(20)>>,
      <<"encrypted", PyBool(FALSE)>>>>

DetailRecords == {DetailRecord(first, second) : first, second \in FieldValues}

\* how far beyond a width the texts of the study go
MaxExcess == 2

\* a text of n characters, 1234567890123...
TextOf(n) == [i \in 1..n |-> Digits[(i % 10) + 1]]

\* lengths around the two widths, the empty text, and the 55 of a long description
TextLengths ==
    {0, 55} \cup ((SnapshotDescriptionWidth - 1)..(SnapshotDescriptionWidth + MaxExcess))
            \cup ((SecurityGroupDescriptionWidth - 1)..(SecurityGroupDescriptionWidth + MaxExcess))

\* a resource of the given type whose name and description are the given text
Described(resource_type, text) ==
    <<<<"resource_type", resource_type>>,
      <<"resource_id", PyStr(<<"r", "-", "1">>)>>,
      <<"name", PyStr(text)>>,
      <<"description", PyStr(text)>>,
      <<"tags", PyDict(<<>>)>>>>

\* a resource without name and description
Undescribed(resource_type) ==
    <<<<"resource_type", resource_type>>,
      <<"resource_id", PyStr(<<"r", "-", "1">>)>>,
      <<"tags", PyDict(<<>>)>>>>

DescribedLists ==
    {<<Described(resource_type, TextOf(n))>> :
        resource_type \in {TypeEBSSnapshot, TypeAMI, TypeSecurityGroup},
        n \in TextLengths}
    \cup {<<Undescribed(resource_type)>> :
            resource_type \in {TypeEBSSnapshot, TypeAMI, TypeSecurityGroup}}

\* most resources in a list given to the tables
MaxResources == 3

\* the resource types of the study: the seven known ones, one the tables do not
\* know, and (last) a resource without resource_type
TypeChoices ==
    <<TypeEC2Instance, TypeEBSVolume, TypeNetworkInterface, TypeEBSSnapshot, TypeAMI,
      TypeSecurityGroup, TypeElasticIP, PyStr(<<"L", "a", "m", "b", "d", "a", " ", "F", "u", "n", "c", "t", "i", "o", "n">>), None>>

\* the i-th resource of a list, of the type chosen
Typed(choice, i) ==
    (IF TypeChoices[choice] = None THEN <<>>
     ELSE <<<<"resource_type", TypeChoices[choice]>>>>)
    \o <<<<"resource_id", PyStr(<<"r", "-">> \o str_int(i))>>,
         <<"state", PyStr(<<"a", "v", "a", "i", "l", "a", "b", "l", "e">>)>>,
         <<"tags", PyDict(<<<<<<"N", "a", "m", "e">>, <<"W", "e", "b", "S", "e", "r", "v", "e", "r">>>>>>)>>>>

TypedLists ==
    UNION {{[i \in 1..n |-> Typed(choices[i], i)] :
               choices \in [1..n -> DOMAIN TypeChoices]} : n \in 0..MaxResources}

\* most resources in an exported list
MaxRows == 2

\* tags of an exported resource: none, one, two
TagChoices ==
    {<<>>, <<<<<<"N", "a", "m", "e">>, <<"W", "e", "b", "S", "e", "r", "v", "e", "r">>>>>>, <<<<<<"O", "w", "n", "e", "r">>, <<"D", "e", "v", "T", "e", "a", "m">>>>, <<<<"N", "a", "m", "e">>, <<>>>>>>}

\* a volume: scalar fields only, one of them None
VolumeRecord(tags) ==
    <<<<"resource_type", TypeEBSVolume>>,
      <<"resource_id", PyStr(<<"v", "o", "l", "-", "1">>)>>,
      <<"size_gb", PyInt(20)>>,
      <<"encrypted", PyBool(FALSE)>>,
      <<"iops", PyNone>>,
      <<"tags", PyDict(tags)>>>>

\* a network interface: its tags before a list field
InterfaceRecord(tags, n) ==
    <<<<"resource_type", TypeNetworkInterface>>,
      <<"resource_id", PyStr(<<"e", "n", "i", "-", "1">>)>>,
      <<"tags", PyDict(tags)>>,
      <<"status", PyStr(<<"i", "n", "-", "u", "s", "e">>)>>,
      <<"security_groups", PyList(GroupIds(n))>>>>

ExportedResources ==
    {VolumeRecord(tags) : tags \in TagChoices}
        \cup {InterfaceRecord(tags, n) : tags \in TagChoices, n \in 0..2}

ExportedLists ==
    UNION {[1..n -> ExportedResources] : n \in 0..MaxRows}

FormatCalls ==
    {FormatCall("format_summary_table", summary) : summary \in SummaryMappings}
        \cup {FormatCall("format_tags", tags) : tags \in TagMappings}
        \cup {FormatCall("format_resource_details", resource) : resource \in DetailRecords}
        \cup {FormatCall("format_resources_table", resources) :
                 resources \in DescribedLists \cup {<<>>}}
        \cup {FormatCall("format_detailed_resources_table", resources) :
                 resources \in DescribedLists \cup TypedLists}
        \cup {FormatCall("export_to_csv", resources) : resources \in ExportedLists}

InitFormat ==
    /\ credentials = "valid"
    /\ fmt_call \in FormatCalls
    /\ fmt_value = None
    /\ entry = "formatter"
    /\ limit = 0
    /\ pc = "format"
    /\ args = NoArgs
    /\ instance_id = ExampleId
    /\ session = FALSE
    /\ exit_code = NoExit
    /\ queries = <<>>
    /\ stdout = <<>>
    /\ files = <<>>
    /\ InitLocals

NextFormat ==
    \/ call_format_summary_table
    \/ call_format_tags
    \/ call_format_resource_details
    \/ call_format_resources_table
    \/ call_format_detailed_resources_table
    \/ call_export_to_csv

SpecFormat == InitFormat /\ [][NextFormat]_vars

-----------------------------------------------------------------------------
(* Properties of the formatter *)

\* the call op has returned
Formatted(op) == fmt_call.op = op /\ pc = "formatted"

IsLetterStart(s, i) == IsCased(s[i]) /\ (i = 1 \/ ~IsCased(s[i - 1]))

\* label is key with underscores as spaces, each word capitalised
IsTitleOf(label, key) ==
    /\ Len(label) = Len(key)
    /\ \A i \in DOMAIN key :
         IF key[i] = "_" THEN label[i] = " "
         ELSE IF ~IsCased(key[i]) THEN label[i] = key[i]
         ELSE IF IsLetterStart(key, i) THEN IsUpper(label[i]) /\ ToLower(label[i]) = ToLower(key[i])
         ELSE IsLower(label[i]) /\ ToUpper(label[i]) = ToUpper(key[i])

\* C13: format_summary_table gives one row per key other than total_resources, in
\* the mapping's order, labelled with the key title-cased with spaces for
\* underscores and carrying its count, then exactly one last row TOTAL carrying
\* total_resources (0 when the mapping has no such key); six kinds give seven rows
C13_SummaryRows ==
    Formatted("format_summary_table") =>
        LET summary == fmt_call.arg
            kinds == SelectSeq(summary, LAMBDA item : item[1] # total_resources)
            rows == fmt_value
        IN  /\ Len(rows) = Len(kinds) + 1
            /\ \A i \in DOMAIN kinds :
                 /\ IsTitleOf(rows[i].resource_type, kinds[i][1])
                 /\ rows[i].count = kinds[i][2]
            /\ rows[Len(rows)].resource_type = TOTAL
            /\ \A item \in Range(summary) :
                 item[1] = total_resources => rows[Len(rows)].count = item[2]
            /\ (\A item \in Range(summary) : item[1] # total_resources)
                  => rows[Len(rows)].count = 0
            /\ \A i \in 1..(Len(rows) - 1) : rows[i].resource_type # TOTAL
            /\ Len(kinds) = 6 => Len(rows) = 7

C13_Witness ==
    /\ Formatted("format_summary_table")
    /\ Len(fmt_call.arg) = 7
    /\ fmt_call.arg[1][1] = total_resources
    /\ Len(fmt_value) = 7
    /\ fmt_value[2].resource_type = <<"N", "e", "t", "w", "o", "r", "k", " ", "I", "n", "t", "e", "r", "f", "a", "c", "e", "s">>

\* the number a sequence of decimal digits writes
RECURSIVE DecimalValue(_)
DecimalValue(digits) ==
    IF digits = <<>> THEN 0
    ELSE 10 * DecimalValue(SubSeq(digits, 1, Len(digits) - 1))
         + (CHOOSE d \in 0..9 : Digits[d + 1] = digits[Len(digits)])

IsNumeral(s) ==
    /\ s # <<>>
    /\ \A i \in DOMAIN s : \E d \in DOMAIN Digits : Digits[d] = s[i]
    /\ Len(s) > 1 => s[1] # "0"

KeyValue(tag) == tag[1] \o <<":">> \o tag[2]

\* C14: the tag string is None for an empty mapping; otherwise it is the first two
\* entries in mapping order as key:value joined by a comma and a space, followed by
\* " (+N more)" with N the number of tags beyond two exactly when there are more
\* than two
C14_TagString ==
    Formatted("format_tags") =>
        LET tags == fmt_call.arg
            out == fmt_value
            two == KeyValue(tags[1]) \o <<",", " ">> \o KeyValue(tags[2])
            note == SubSeq(out, Len(two) + 1, Len(out))
            number == SubSeq(note, 4, Len(note) - 6)
        IN  /\ tags = <<>> => out = <<"N", "o", "n", "e">>
            /\ Len(tags) = 1 => out = KeyValue(tags[1])
            /\ Len(tags) = 2 => out = two
            /\ Len(tags) > 2 =>
                 /\ IsPrefix(two, out)
                 /\ Len(note) >= 10
                 /\ SubSeq(note, 1, 3) = <<" ", "(", "+">>
                 /\ SubSeq(note, Len(note) - 5, Len(note)) = <<" ", "m", "o", "r", "e", ")">>
                 /\ IsNumeral(number)
                 /\ DecimalValue(number) = Len(tags) - 2
            /\ tags = ExampleTags => out = <<"N", "a", "m", "e", ":", "W", "e", "b", "S", "e", "r", "v", "e", "r", ",", " ", "E", "n", "v", "i", "r", "o", "n", "m", "e", "n", "t", ":", "P", "r", "o", "d", "u", "c", "t", "i", "o", "n", " ", "(", "+", "1", " ", "m", "o", "r", "e", ")">>

C14_Witness ==
    /\ Formatted("format_tags")
    /\ Len(fmt_call.arg) = 12
    /\ SubSeq(fmt_value, Len(fmt_value) - 9, Len(fmt_value)) = <<"(", "+", "1", "0", " ", "m", "o", "r", "e", ")">>

\* a field that is shown at all: not one of the three skipped, not None, not N/A
Qualifies(item) ==
    /\ item[1] \notin {"resource_type", "resource_id", "tags"}
    /\ type_of(item[2]) # "none"
    /\ ~(type_of(item[2]) = "str" /\ payload(item[2]) = <<"N", "/", "A">>)

IsCollection(value) == type_of(value) \in {"list", "dict"}

\* key: value, a non-empty list or dict written out, cut to 50 characters and
\* followed by the ellipsis
Rendering(item) ==
    KeyText[item[1]] \o <<":", " ">> \o
        (IF IsCollection(item[2])
         THEN [i \in 1..Min(50, Len(to_text(item[2]))) |-> to_text(item[2])[i]] \o <<".", ".", ".">>
         ELSE to_text(item[2]))

Joined(renderings) == join(<<";", " ">>, renderings)

RenderAll(items) == [i \in DOMAIN items |-> Rendering(items[i])]

\* C16 as stated: Details comes from the first three fields that are not
\* resource_type, resource_id or tags and hold neither None nor N/A, each as
\* key: value, a list or dict written out and cut to 50 characters with an ellipsis
\* if non-empty (an empty one among the three showing nothing)
C16_FirstThreeQualifying ==
    Formatted("format_resource_details") =>
        LET three == take(SelectSeq(fmt_call.arg, Qualifies), 3)
            shown == SelectSeq(three, LAMBDA item :
                                   IsCollection(item[2]) => payload(item[2]) # <<>>)
        IN  fmt_value = Joined(RenderAll(shown))

\* C16, amended: Details comes from the first three fields that are not
\* resource_type, resource_id or tags, hold neither None nor N/A and are not an
\* empty list or dict; each is key: value, a list or dict being written out, cut to
\* its first 50 characters and always followed by the ellipsis
C16_FirstThreeShown ==
    Formatted("format_resource_details") =>
        LET shown == SelectSeq(fmt_call.arg, LAMBDA item :
                                   /\ Qualifies(item)
                                   /\ IsCollection(item[2]) => payload(item[2]) # <<>>)
        IN  fmt_value = Joined(RenderAll(take(shown, 3)))

\* an empty list comes first, four more fields can be shown, and the long list is cut
C16_Witness ==
    /\ Formatted("format_resource_details")
    /\ fmt_call.arg[3][2] = PyList(<<>>)
    /\ type_of(fmt_call.arg[4][2]) = "list"
    /\ Len(to_text(fmt_call.arg[4][2])) > 50
    /\ Len(fmt_value) > 50

NoResourcesFound == PyStr(<<"N", "o", " ", "r", "e", "s", "o", "u", "r", "c", "e", "s", " ", "f", "o", "u", "n", "d", ".">>)

\* the resource_type a table goes by
TypeOf(resource) ==
    IF \E item \in Range(resource) : item[1] = "resource_type"
    THEN (CHOOSE item \in Range(resource) : item[1] = "resource_type")[2]
    ELSE PyStr(<<"U", "n", "k", "n", "o", "w", "n">>)

HeadingOf(resource_type) == <<"\n", "#", "#", " ">> \o payload(resource_type) \o <<"s", "\n">>

\* the row the detailed table shows for the r-th resource of its input: in the
\* section headed by its type, at its rank among the resources of that type
RowOf(resources, sections, r) ==
    LET section == CHOOSE s \in Range(sections) : s.heading = HeadingOf(TypeOf(resources[r]))
        rank == Cardinality({q \in 1..r : TypeOf(resources[q]) = TypeOf(resources[r])})
    IN  section.table[rank]

CellOf(row, header) == (CHOOSE cell \in Range(row) : cell[1] = header)[2]

Has(resource, key) == \E item \in Range(resource) : item[1] = key

ValueOf(resource, key) == (CHOOSE item \in Range(resource) : item[1] = key)[2]

\* the text fields the detailed tables cut: type, field, column, width
CutFields ==
    {<<TypeSecurityGroup, "description", "Description", 40>>,
     <<TypeEBSSnapshot, "description", "Description", 30>>,
     <<TypeAMI, "name", "Name", 30>>}

\* shown is text unchanged when it has at most width characters, and its first width
\* characters followed by three dots when it has more
CutTo(shown, text, width) ==
    IF Len(text) <= width THEN shown = text
    ELSE /\ Len(shown) = width + 3
         /\ \A i \in 1..width : shown[i] = text[i]
         /\ \A i \in (width + 1)..(width + 3) : shown[i] = "."

\* C15: in the detailed tables the description of a Security Group is cut at 40
\* characters, the description of a Snapshot and the name of an Image at 30: the
\* cell is the first W characters followed by ... exactly when the text is longer
\* than W, and the text unchanged otherwise
C15_CutAtWidth ==
    (Formatted("format_detailed_resources_table") /\ fmt_call.arg # <<>>) =>
        \A r \in DOMAIN fmt_call.arg, cut \in CutFields :
            LET resource == fmt_call.arg[r]
            IN  (TypeOf(resource) = cut[1] /\ Has(resource, cut[2])) =>
                    CutTo(payload(CellOf(RowOf(fmt_call.arg, fmt_value, r), cut[3])),
                          payload(ValueOf(resource, cut[2])), cut[4])

\* a Security Group description of 55 characters is shown as 40 and three dots
C15_Witness ==
    /\ Formatted("format_detailed_resources_table")
    /\ Len(fmt_call.arg) = 1
    /\ TypeOf(fmt_call.arg[1]) = TypeSecurityGroup
    /\ Has(fmt_call.arg[1], "description")
    /\ Len(payload(ValueOf(fmt_call.arg[1], "description"))) = 55
    /\ Len(payload(CellOf(fmt_value[1].table[1], "Description"))) = 43

KnownTypes ==
    {TypeEC2Instance, TypeEBSVolume, TypeNetworkInterface, TypeEBSSnapshot, TypeAMI,
     TypeSecurityGroup, TypeElasticIP}

\* the first column of each known type's layout
IdColumn(resource_type) ==
    CASE resource_type = TypeEC2Instance -> "Instance ID"
      [] resource_type = TypeEBSVolume -> "Volume ID"
      [] resource_type = TypeNetworkInterface -> "Interface ID"
      [] resource_type = TypeEBSSnapshot -> "Snapshot ID"
      [] resource_type = TypeAMI -> "AMI ID"
      [] resource_type = TypeSecurityGroup -> "Security Group ID"
      [] resource_type = TypeElasticIP -> "Allocation ID"

Headers(row) == [c \in DOMAIN row |-> row[c][1]]

FirstIndex(resources, resource_type) ==
    CHOOSE r \in DOMAIN resources :
        /\ TypeOf(resources[r]) = resource_type
        /\ \A q \in 1..(r - 1) : TypeOf(resources[q]) # resource_type

\* C17: format_detailed_resources_table partitions its input by resource_type: one
\* section per type, in the order the types first occur, holding exactly the
\* resources of that type in input order, so that every resource is in exactly one
\* section; a section of one of the seven known types has that type's own layout,
\* a section of any other type the generic layout Resource ID, Details
C17_GroupedByType ==
    Formatted("format_detailed_resources_table") =>
        LET resources == fmt_call.arg
            sections == fmt_value
            types == {TypeOf(resources[r]) : r \in DOMAIN resources}
            OfTypeT(resource_type) ==
                SelectSeq(resources, LAMBDA resource : TypeOf(resource) = resource_type)
            TypeAt(i) == CHOOSE t \in types : HeadingOf(t) = sections[i].heading
        IN  IF resources = <<>> THEN sections = NoResourcesFound
            ELSE /\ Len(sections) = Cardinality(types)
                 /\ \A i \in DOMAIN sections :
                      /\ \E t \in types : HeadingOf(t) = sections[i].heading
                      /\ LET members == OfTypeT(TypeAt(i))
                             table == sections[i].table
                         IN  /\ Len(table) = Len(members)
                             /\ \A j \in DOMAIN table :
                                  /\ table[j][1][2] = ValueOf(members[j], "resource_id")
                                  /\ IF TypeAt(i) \in KnownTypes
                                     THEN /\ Headers(table[j])[1] = IdColumn(TypeAt(i))
                                          /\ Len(table[j]) > 2
                                     ELSE Headers(table[j]) = <<"Resource ID", "Details">>
                 /\ \A i, j \in DOMAIN sections :
                      i < j => FirstIndex(resources, TypeAt(i)) < FirstIndex(resources, TypeAt(j))
                 /\ \A t, u \in KnownTypes :
                      (t # u /\ t \in types /\ u \in types) =>
                         LET row(x) == (CHOOSE s \in Range(sections) :
                                            s.heading = HeadingOf(x)).table[1]
                         IN  Headers(row(t)) # Headers(row(u))

\* an unknown type between two resources of one known type
C17_Witness ==
    /\ Formatted("format_detailed_resources_table")
    /\ Len(fmt_call.arg) = 3
    /\ TypeOf(fmt_call.arg[1]) = TypeElasticIP
    /\ TypeOf(fmt_call.arg[2]) \notin KnownTypes
    /\ TypeOf(fmt_call.arg[3]) = TypeElasticIP
    /\ Len(fmt_value) = 2
    /\ Len(fmt_value[1].table) = 2

\* the elements with a comma and a space between them
RECURSIVE CommaJoined(_)
CommaJoined(elements) ==
    IF elements = <<>> THEN <<>>
    ELSE IF Len(elements) = 1 THEN elements[1]
    ELSE CommaJoined(SubSeq(elements, 1, Len(elements) - 1))
         \o <<",", " ">> \o elements[Len(elements)]

\* the columns a resource calls for
ColumnsOf(resource) ==
    UNION {IF type_of(item[2]) = "dict"
           THEN {KeyText[item[1]] \o <<"_">> \o tag[1] : tag \in Range(payload(item[2]))}
           ELSE {KeyText[item[1]]} : item \in Range(resource)}

\* the cell of row r under column
CellAt(df, r, column) ==
    df.rows[r][CHOOSE c \in DOMAIN df.columns : df.columns[c] = column]

\* C18: export_to_csv writes one row per resource in input order and a header that
\* is the union of the flattened keys; in a resource's row every top-level scalar
\* field is a column holding its value, every tag key k is a column tags_k holding
\* the tag's value, and a sequence field is one column holding its elements joined
\* by a comma (and a space)
C18_CsvColumns ==
    Formatted("export_to_csv") =>
        LET resources == fmt_call.arg
            df == fmt_value
        IN  /\ Len(df.rows) = Len(resources)
            /\ Range(df.columns) = UNION {ColumnsOf(resources[r]) : r \in DOMAIN resources}
            /\ \A c, d \in DOMAIN df.columns :
                 df.columns[c] = df.columns[d] => c = d
            /\ \A r \in DOMAIN resources :
                 /\ Len(df.rows[r]) = Len(df.columns)
                 /\ \A item \in Range(resources[r]) :
                      CASE type_of(item[2]) = "dict" ->
                              \A tag \in Range(payload(item[2])) :
                                  CellAt(df, r, KeyText[item[1]] \o <<"_">> \o tag[1])
                                      = PyStr(tag[2])
                        [] type_of(item[2]) = "list" ->
                              CellAt(df, r, KeyText[item[1]])
                                  = PyStr(CommaJoined(payload(item[2])))
                        [] OTHER -> CellAt(df, r, KeyText[item[1]]) = item[2]
                 /\ \A c \in DOMAIN df.columns :
                      df.columns[c] \notin ColumnsOf(resources[r])
                         => df.rows[r][c] = NaN

\* a tagged volume, then an untagged interface with two security groups
C18_Witness ==
    /\ Formatted("export_to_csv")
    /\ Len(fmt_call.arg) = 2
    /\ TypeOf(fmt_call.arg[1]) = TypeEBSVolume
    /\ Len(payload(ValueOf(fmt_call.arg[1], "tags"))) = 2
    /\ TypeOf(fmt_call.arg[2]) = TypeNetworkInterface
    /\ ValueOf(fmt_call.arg[2], "tags") = PyDict(<<>>)
    /\ Len(payload(ValueOf(fmt_call.arg[2], "security_groups"))) = 2
    /\ CellAt(fmt_value, 2, <<"t", "a", "g", "s", "_", "O", "w", "n", "e", "r">>) = NaN
    /\ CellAt(fmt_value, 1, <<"t", "a", "g", "s", "_", "O", "w", "n", "e", "r">>) = PyStr(<<"D", "e", "v", "T", "e", "a", "m">>)

\* the seven kinds of resource, by the names the records carry
ResourceTypes == {"EC2 Instance"} \cup Range(TypeName)

\* C19: every entry of resources has a resource_type among the seven kinds and a
\* resource_id, and no two entries of one resource_type have the same resource_id
C19_TypedAndUnique ==
    Returned =>
        LET resources == result.resources
        IN  /\ \A i \in DOMAIN resources :
                 /\ "resource_type" \in DOMAIN resources[i]
                 /\ resources[i].resource_type \in ResourceTypes
                 /\ "resource_id" \in DOMAIN resources[i]
            /\ \A i, j \in DOMAIN resources :
                 (/\ resources[i].resource_type = resources[j].resource_type
                  /\ resources[i].resource_id = resources[j].resource_id) => i = j

\* the positions of main at which a renderer or an export runs next
Rendering_positions == {"summary", "tables", "csv", "json"}

\* the result still is what discover_all_resources assembled from its collectors
AsReturned ==
    result = discovery_result(instance_id, instance_details, volumes, network_interfaces,
                              snapshots, amis, security_groups, elastic_ips)

\* a step taken at one of these positions leaves result as it is
RendererKeepsResult == (pc \in Rendering_positions) => (result' = result)

\* C20: no renderer and no export changes the DiscoveryResult it is given: a step
\* of format_summary_table, format_resources_table, format_detailed_resources_table,
\* export_to_csv or export_to_json leaves result as it is, and after any number of
\* them instance_details, resources and summary are what discover_all_resources
\* returned
C20_ResultNotChanged ==
    /\ [][RendererKeepsResult]_vars
    /\ []((result # None /\ pc \in Rendering_positions \cup {"finish", "exit"}) => AsReturned)

C20_Witness ==
    /\ pc = "exit"
    /\ exit_code = 0
    /\ files = <<"csv", "json">>
    /\ Printed("detailed_table")
    /\ AsReturned

-----------------------------------------------------------------------------
(* The volume collector on volumes with several attachments *)

MaxAttachments == 2

\* another instance, one a multi-attach volume is attached to as well
OtherInstanceId == <<"i", "-", "0", "f", "e", "d", "c", "b", "a", "0",
                     "9", "8", "7", "6", "5", "4", "3", "2", "1">>

\* the i-th entry of a volume's Attachments
Attachment(i, iid, delete_on_termination) ==
    [InstanceId |-> iid, Device |-> <<"/dev/sd", i>>,
     DeleteOnTermination |-> delete_on_termination]

AttachmentLists(iid) ==
    UNION {{[i \in 1..n |-> Attachment(i, who[i], flag[i])] :
               who \in [1..n -> {iid, OtherInstanceId}], flag \in [1..n -> BOOLEAN]} :
           n \in 0..MaxAttachments}

AttachedVolume(k, attachments) ==
    [VolumeId |-> <<"vol", k>>, Attachments |-> attachments]

\* describe_volumes answers of one or two volumes, each with any attachment list
AttachedVolumeResponses(iid) ==
    {<<AttachedVolume(1, a)>> : a \in AttachmentLists(iid)}
        \cup {<<AttachedVolume(1, a), AttachedVolume(2, b)>> :
                 a \in AttachmentLists(iid), b \in AttachmentLists(iid)}

\* one call of get_associated_volumes, the provider answering fmt_call.arg
call_get_associated_volumes ==
    /\ pc = "collect"
    /\ fmt_call.op = "get_associated_volumes"
    /\ \E outcome \in Outcomes :
          LET got == get_associated_volumes(instance_id, "get_associated_volumes",
                                            outcome, fmt_call.arg)
          IN  /\ queries' = queries \o got.calls
              /\ stdout' = stdout \o got.printed
              /\ fmt_value' = IF got.raised THEN None ELSE got.value
              /\ pc' = IF got.raised THEN "raised" ELSE "collected"
    /\ UNCHANGED <<credentials, fmt_call, entry, limit, args, instance_id, session,
                   exit_code, files, locals, result>>

InitVolumes ==
    /\ credentials = "valid"
    /\ fmt_call \in {FormatCall("get_associated_volumes", response) :
                         response \in AttachedVolumeResponses(ExampleId)}
    /\ fmt_value = None
    /\ entry = "collector"
    /\ limit = 2
    /\ pc = "collect"
    /\ args = NoArgs
    /\ instance_id = ExampleId
    /\ session = TRUE
    /\ exit_code = NoExit
    /\ queries = <<>>
    /\ stdout = <<>>
    /\ files = <<>>
    /\ InitLocals

NextVolumes == call_get_associated_volumes

SpecVolumes == InitVolumes /\ [][NextVolumes]_vars

\* the positions of the attachment entries of the queried instance
Matching(attachments, iid) ==
    {i \in DOMAIN attachments : attachments[i].InstanceId = iid}

\* C21: for every volume the volume query returned, the record's device and
\* delete_on_termination are those of the first attachment entry, in provider order,
\* whose instance id is the queried one; later matching entries are ignored, and with
\* no matching entry device is null and delete_on_termination is false
C21_FirstMatchingAttachment ==
    pc = "collected" /\ queries[1].outcome = "ok" =>
        /\ Len(fmt_value) = Len(fmt_call.arg)
        /\ \A k \in DOMAIN fmt_value :
              LET attachments == fmt_call.arg[k].Attachments
                  matching == Matching(attachments, instance_id)
              IN  /\ fmt_value[k].resource_id = fmt_call.arg[k].VolumeId
                  /\ IF matching = {}
                     THEN /\ fmt_value[k].device = NoId
                          /\ fmt_value[k].delete_on_termination = FALSE
                     ELSE LET first == CHOOSE i \in matching :
                                          \A j \in matching : i <= j
                          IN  /\ fmt_value[k].device = attachments[first].Device
                              /\ fmt_value[k].delete_on_termination =
                                     attachments[first].DeleteOnTermination

\* a volume whose first entry is of another instance and whose second is of the queried
\* one, next to a volume with two entries of the queried instance that differ
C21_Witness ==
    /\ pc = "collected"
    /\ queries[1].outcome = "ok"
    /\ Len(fmt_value) = 2
    /\ fmt_call.arg[1].Attachments =
           <<Attachment(1, OtherInstanceId, FALSE), Attachment(2, instance_id, TRUE)>>
    /\ fmt_value[1].device = <<"/dev/sd", 2>>
    /\ fmt_value[1].delete_on_termination
    /\ fmt_call.arg[2].Attachments =
           <<Attachment(1, instance_id, FALSE), Attachment(2, instance_id, TRUE)>>
    /\ fmt_value[2].device = <<"/dev/sd", 1>>
    /\ ~fmt_value[2].delete_on_termination

-----------------------------------------------------------------------------
(* Properties of the collectors' provider calls *)

\* the positions in queries of the provider calls collector k issued
CallsOf(k) == {i \in DOMAIN queries : queries[i].by = Collectors[k]}

\* C22: no retries: within one invocation of a collector each provider query is issued
\* at most once, and after one of its provider queries failed the collector issues no
\* further provider query
C22_NoRetries ==
    \A k \in 1..6 :
        /\ \A i, j \in CallsOf(k) : queries[i].op = queries[j].op => i = j
        /\ \A i, j \in CallsOf(k) : queries[i].outcome # "ok" => j <= i

\* the snapshot collector's volume query and the image collector's reload both failed,
\* each is the only call of its collector, and discovery went on to return
C22_Witness ==
    /\ Returned
    /\ \E i \in CallsOf(3) :
          /\ queries[i].op = "describe_volumes"
          /\ queries[i].outcome = "ClientError"
          /\ CallsOf(3) = {i}
    /\ \E i \in CallsOf(4) :
          /\ queries[i].op = "load"
          /\ queries[i].outcome = "NotFound"
          /\ CallsOf(4) = {i}
    /\ \E i \in CallsOf(5) : queries[i].op = "describe_security_groups"

\* C23 as stated: in every result discover_all_resources returns, every Snapshot
\* entry's volume_id is the resource_id of a Volume entry of the same result
C23_SnapshotOfListedVolume ==
    Returned =>
        \A i \in DOMAIN result.resources :
            result.resources[i].resource_type = "EBS Snapshot" =>
                \E j \in DOMAIN result.resources :
                    /\ result.resources[j].resource_type = "EBS Volume"
                    /\ result.resources[j].resource_id = result.resources[i].volume_id

\* collector k's instance.load() raised ClientError: instance-not-found or another code
ReloadFailed(k) ==
    \E i \in CallsOf(k) : queries[i].op = "load" /\ IsClientError(queries[i].outcome)

\* the result has no entry of collector k's kind, counts none, and starts with the
\* Instance entry built from the first fetch
NothingFrom(k) ==
    /\ result # None
    /\ OfType(result.resources, TypeName[k]) = <<>>
    /\ result.summary[Kinds[k]] = 0
    /\ result.resources[1] =
           instance_resource(instance_id, queries[1].items[1])

Reloaded(k, items) ==
    \E i \in CallsOf(k) :
        queries[i].op = "load" /\ queries[i].outcome = "ok" /\ queries[i].items = items

Issued(op) == \E i \in DOMAIN queries : queries[i].op = op

\* C25: the security-group collector issues no security-group query when the instance
\* references no security group, and the image collector no image query when the instance
\* has no image identifier; both then return an empty sequence, so that no describe
\* query is issued with an empty identifier set
C25_NoQueryWithoutIdentifiers ==
    /\ Reloaded(4, <<NoId>>) => ~Issued("describe_images") /\ amis = <<>>
    /\ Reloaded(5, <<>>) => ~Issued("describe_security_groups") /\ security_groups = <<>>
    /\ Issued("describe_images") =>
           \E image \in ImageIds \ {NoId} : Reloaded(4, <<image>>)
    /\ Issued("describe_security_groups") =>
           \E refs \in SecurityGroupRefs(limit) \ {<<>>} : Reloaded(5, refs)

\* both reloads answered an instance without image and without security group, neither
\* query was issued, and the result holds what the other collectors found
C25_Witness ==
    /\ Returned
    /\ Reloaded(4, <<NoId>>)
    /\ Reloaded(5, <<>>)
    /\ ~Issued("describe_images")
    /\ ~Issued("describe_security_groups")
    /\ Issued("describe_addresses")
    /\ result.summary.amis = 0
    /\ result.summary.security_groups = 0
    /\ result.summary.total_resources > 1

=============================================================================
